---- MODULE Spec2Model ----
(***************************************************************************)
(* Model of the SourceGrounded10K filing question-answering service:       *)
(*   - the retrieval store  (app/services/vector_store.py)                 *)
(*   - the relational store (app/services/storage.py, app/models)          *)
(*   - the filing pipeline  (app/services/filing_service.py)               *)
(*   - plan / execute / synthesize / format (app/tools/filing_qa_tool.py)  *)
(*                                                                         *)
(* Two specifications share the variables:                                 *)
(*   Spec    requests running the filing pipeline, the retrieval store's   *)
(*           add_chunks and search, interleaved at transaction boundaries  *)
(*   SpecQA  one answer_filing_question call, from the plan to the answer  *)
(***************************************************************************)
EXTENDS Integers, Sequences, FiniteSets, TLC

\* ------------------------------------------------------------------------
\* Bounds of the model
\* ------------------------------------------------------------------------
\* pipeline runs started in one behaviour of Spec (caps filing ids and uuids)
MaxOps == 2
\* add_chunks calls repeated with an already submitted chunk set
MaxResubmits == 1
\* ids per existence-check batch: stands for the 100 of vector_store.py:273
RetrieveBatchSize == 2
\* points per upsert call: stands for the batch_size=100 of filing_service.py:530
UploadBatchSize == 2
\* largest value of settings.top_k the environment may configure
MaxTopK == 6
\* tasks in one plan
MaxTasks == 2
\* tokens in one planner response
MaxResponseLen == 4
\* tokens in one section name
MaxNameLen == 4
\* the longest filing text, in lines
MaxLines == 5
\* the most table and row elements of a document
MaxElems == 6
\* the most citation indices of a section
MaxCitations == 3
MaxChunks == 3
MaxFragments == 3
MaxRows == 2

\* ------------------------------------------------------------------------
\* Program constants
\* ------------------------------------------------------------------------
\* settings.top_k default
DefaultTopK == 5
\* settings.score_threshold, in hundredths
ScoreThreshold == 50
\* per-company evidence cap of execute_plan
EvidenceCap == 5
\* a section is kept when its text is longer than this many characters
MinSectionLen == 100
\* the chunker skips texts shorter than this many characters
MinChunkSize == 50

None == "None"

\* ------------------------------------------------------------------------
\* Small helpers
\* ------------------------------------------------------------------------
Min(a, b) == IF a < b THEN a ELSE b

Range(s) == {s[i] : i \in DOMAIN s}

\* the elements of a finite set of integers as an ascending sequence
RECURSIVE SetToSeq(_)
SetToSeq(S) ==
    IF S = {} THEN <<>>
    ELSE LET m == CHOOSE x \in S : \A y \in S : x <= y
         IN <<m>> \o SetToSeq(S \ {m})

\* ------------------------------------------------------------------------
\* Embedding service (Ollama) and cosine similarity: external collaborators.
\* A vector is <<topic, variant>>; a text is embedded deterministically.
\* ------------------------------------------------------------------------
\* the embedding of a text: its topic and the text itself
embed_text(t) ==
    LET Topic ==
            CASE t \in {"rev-a", "rev-b", "rev-c", "rev-d", "rev-e", "rev-f", "revenue"} -> "rev"
              [] t \in {"risk-a", "risk-b", "risk"} -> "risk"
              [] OTHER -> "misc"
    IN <<Topic, t>>

\* cosine similarity in hundredths: a vector is most similar to itself
Cosine(u, v) ==
    IF u = v THEN 100
    ELSE IF u[1] = v[1] THEN 80
    ELSE IF {u[1], v[1]} = {"misc", "risk"} THEN 50
    ELSE 20

\* ------------------------------------------------------------------------
\* Section names.  A name is a sequence of tokens so that the regular
\* expressions of the code can be applied to it: "Item 1A: Risk" is
\* <<"Item", " ", "1", "A", ":", " ", "Risk">>.  Words are separated from
\* numbers by whitespace or punctuation in every name of the model.
\* ------------------------------------------------------------------------
ItemWords == {"Item", "ITEM", "item"}
Whitespace == {" ", "  "}
Numbers == {"1", "7", "8"}
SuffixLetters == {"A", "a"}

SecRisk == <<"Item", " ", "1", "A", ":", " ", "Risk">>
SecMDA == <<"Item", " ", "7", ":", " ", "MDA">>
SecTable == <<"Financial", " ", "Table">>

\* str.strip() on a token sequence
RECURSIVE StripTokens(_)
StripTokens(s) ==
    IF s = <<>> THEN s
    ELSE IF Head(s) \in Whitespace THEN StripTokens(Tail(s))
    ELSE IF s[Len(s)] \in Whitespace THEN StripTokens(SubSeq(s, 1, Len(s) - 1))
    ELSE s

\* VectorStore._normalize_section_name
VectorStore_normalize_section_name(section) ==
    LET \* the tokens before the first occurrence of sep: section.split(sep)[0]
        BeforeFirst(sep) ==
            LET i == CHOOSE k \in DOMAIN section :
                        section[k] = sep /\ \A j \in 1..(k - 1) : section[j] # sep
            IN SubSeq(section, 1, i - 1)
    IN IF /\ Len(section) >= 3
          /\ section[1] \in ItemWords
          /\ section[2] \in Whitespace
          /\ section[3] \in Numbers
       THEN IF Len(section) >= 4 /\ section[4] \in SuffixLetters
            THEN SubSeq(section, 1, 4)
            ELSE SubSeq(section, 1, 3)
       ELSE IF ":" \in Range(section) THEN StripTokens(BeforeFirst(":"))
       ELSE IF "-" \in Range(section) THEN StripTokens(BeforeFirst("-"))
       ELSE section

\* the section value search() filters on (vector_store.py:425-434)
SearchSectionFilter(section) ==
    LET \* str.upper() on one token
        UpperToken(t) ==
            CASE t = "a" -> "A"
              [] t \in ItemWords -> "ITEM"
              [] t = "Risk" -> "RISK"
              [] t = "Financial" -> "FINANCIAL"
              [] t = "Table" -> "TABLE"
              [] OTHER -> t
        \* the last whitespace-separated piece of a name: s.split()[-1]
        RECURSIVE LastPiece(_)
        LastPiece(s) ==
            IF s = <<>> THEN <<>>
            ELSE IF s[Len(s)] \in Whitespace THEN <<>>
            ELSE Append(LastPiece(SubSeq(s, 1, Len(s) - 1)), s[Len(s)])
        n1 == VectorStore_normalize_section_name(section)
        n2 == IF Len(n1) = 1 /\ n1[1] \in Numbers THEN <<"Item", " ">> \o n1 ELSE n1
        piece == LastPiece(StripTokens(n2))
    IN IF n2 # <<>> /\ n2[1] \in ItemWords
       THEN <<"Item", " ">> \o [i \in DOMAIN piece |-> UpperToken(piece[i])]
       ELSE n2

\* ------------------------------------------------------------------------
\* Retrieval store (Qdrant collection): a sequence of points.
\* ------------------------------------------------------------------------
HasPoint(idx, id) == \E i \in DOMAIN idx : idx[i].id = id

\* QdrantClient.upsert: each point replaces the point of its id or is added
RECURSIVE Upsert(_, _)
Upsert(idx, pts) ==
    LET UpsertOne(p) ==
            IF HasPoint(idx, p.id)
            THEN [i \in DOMAIN idx |-> IF idx[i].id = p.id THEN p ELSE idx[i]]
            ELSE Append(idx, p)
    IN IF pts = <<>> THEN idx ELSE Upsert(UpsertOne(Head(pts)), Tail(pts))

\* number of the batch (1-based) that holds position i
BatchOf(i, size) == ((i - 1) \div size) + 1

NumBatches(n, size) == IF n = 0 THEN 0 ELSE ((n - 1) \div size) + 1

\* the existence check failing closed: the ids of a batch whose retrieve call
\* raises are taken to exist
ExistingIds_FailClosed(idx, chunks, failBatches) ==
    {chunks[i].id : i \in {k \in DOMAIN chunks :
                              \/ BatchOf(k, RetrieveBatchSize) \in failBatches
                              \/ HasPoint(idx, chunks[k].id)}}

\* add_chunks, step 1: the ids found by the batched existence check; a batch
\* whose retrieve call raises contributes nothing (vector_store.py:266-293)
ExistingIds(idx, chunks, failBatches) ==
    {chunks[i].id : i \in {k \in DOMAIN chunks :
                              /\ BatchOf(k, RetrieveBatchSize) \notin failBatches
                              /\ HasPoint(idx, chunks[k].id)}}

\* add_chunks without the filter: every incoming chunk is taken as new
NewChunks_Unfiltered(chunks, existing) == chunks

\* add_chunks, filter to the new chunks (vector_store.py:296)
NewChunks(chunks, existing) == SelectSeq(chunks, LAMBDA c : c.id \notin existing)

\* add_chunks, step 4: the point built for a chunk (vector_store.py:320-342)
MakePoint(chunk) ==
    [id |-> chunk.id,
     vector |-> embed_text(chunk.text),
     filing_id |-> chunk.filing_id,
     ticker |-> chunk.ticker,
     filing_type |-> chunk.filing_type,
     report_date |-> chunk.report_date,
     section |-> VectorStore_normalize_section_name(chunk.section),
     section_full |-> chunk.section,
     chunk_index |-> chunk.chunk_index,
     chunk_type |-> chunk.chunk_type,
     text |-> chunk.text]

\* VectorStore.add_chunks.  failBatches: the existence-check batches whose
\* retrieve raises; embedFails: embed_texts raises; upsertFailAt: the upload
\* batch whose upsert raises (0: none).  The result holds the new index, the
\* ids embedded, the ids uploaded and whether the call raised.
add_chunks(idx, chunks, batch_size, failBatches, embedFails, upsertFailAt) ==
    LET existing == ExistingIds(idx, chunks, failBatches)
        new == NewChunks(chunks, existing)
        pts == [i \in DOMAIN new |-> MakePoint(new[i])]
        sent == IF upsertFailAt = 0 \/ upsertFailAt > NumBatches(Len(pts), batch_size)
                THEN pts
                ELSE SubSeq(pts, 1, (upsertFailAt - 1) * batch_size)
        ids(s) == [i \in DOMAIN s |-> s[i].id]
    IN IF chunks = <<>> \/ new = <<>>
       THEN [index |-> idx, embedded |-> <<>>, uploaded |-> <<>>, raised |-> FALSE]
       ELSE IF embedFails
       THEN [index |-> idx, embedded |-> <<>>, uploaded |-> <<>>, raised |-> TRUE]
       ELSE [index |-> Upsert(idx, sent),
             embedded |-> ids(new),
             uploaded |-> ids(sent),
             raised |-> sent # pts]

\* Python truthiness of an optional string argument (None or "" is false)
Truthy(x) == x # None /\ x # ""

\* the filter conditions combined with "should" (any of them) instead of "must"
MatchesFilter_Any(p, ticker, filing_type, section) ==
    \/ ~Truthy(ticker) /\ section = <<>> /\ ~Truthy(filing_type)
    \/ Truthy(ticker) /\ p.ticker = ticker
    \/ section # <<>> /\ p.section = SearchSectionFilter(section)
    \/ Truthy(filing_type) /\ p.filing_type = filing_type

\* the points that satisfy the filters of a search (vector_store.py:414-457)
MatchesFilter(p, ticker, filing_type, section) ==
    /\ Truthy(ticker) => p.ticker = ticker
    /\ section # <<>> => p.section = SearchSectionFilter(section)
    /\ Truthy(filing_type) => p.filing_type = filing_type

\* QdrantClient.search: the positions of the filtered points by descending
\* similarity (ties in storage order), cut to the limit
RECURSIVE RankPositions(_, _, _)
RankPositions(idx, qv, S) ==
    IF S = {} THEN <<>>
    ELSE LET best == CHOOSE i \in S : \A j \in S :
                        \/ Cosine(qv, idx[i].vector) > Cosine(qv, idx[j].vector)
                        \/ /\ Cosine(qv, idx[i].vector) = Cosine(qv, idx[j].vector)
                           /\ i <= j
         IN <<best>> \o RankPositions(idx, qv, S \ {best})

\* the filtered points in storage order, not ranked by similarity
QdrantSearch_Unranked(idx, qv, ticker, filing_type, section, limit) ==
    LET S == {i \in DOMAIN idx : MatchesFilter(idx[i], ticker, filing_type, section)}
        ranked == SetToSeq(S)
    IN SubSeq(ranked, 1, Min(limit, Len(ranked)))


QdrantSearch(idx, qv, ticker, filing_type, section, limit) ==
    LET S == {i \in DOMAIN idx : MatchesFilter(idx[i], ticker, filing_type, section)}
        ranked == RankPositions(idx, qv, S)
    IN SubSeq(ranked, 1, Min(limit, Len(ranked)))

\* one formatted result: the payload of the point with its id and score
FormatResult(p, qv) ==
    [id |-> p.id,
     score |-> Cosine(qv, p.vector),
     filing_id |-> p.filing_id,
     ticker |-> p.ticker,
     filing_type |-> p.filing_type,
     report_date |-> p.report_date,
     section |-> p.section,
     section_full |-> p.section_full,
     chunk_index |-> p.chunk_index,
     chunk_type |-> p.chunk_type,
     text |-> p.text]

\* the threshold given up when it leaves nothing
search_RelaxWhenEmpty(idx, query, limit, ticker, filing_type, section, topk) ==
    LET lim == IF limit = 0 THEN topk ELSE limit
        qv == embed_text(query)
        hits == QdrantSearch(idx, qv, ticker, filing_type, section, lim)
        kept == SelectSeq(hits, LAMBDA i : ~(Cosine(qv, idx[i].vector) < ScoreThreshold))
        out == IF kept = <<>> THEN hits ELSE kept
    IN [k \in DOMAIN out |-> FormatResult(idx[out[k]], qv)]

\* VectorStore.search (limit = 0 stands for limit=None)
search(idx, query, limit, ticker, filing_type, section, topk) ==
    LET lim == IF limit = 0 THEN topk ELSE limit
        qv == embed_text(query)
        hits == QdrantSearch(idx, qv, ticker, filing_type, section, lim)
        kept == SelectSeq(hits, LAMBDA i : ~(Cosine(qv, idx[i].vector) < ScoreThreshold))
    IN [k \in DOMAIN kept |-> FormatResult(idx[kept[k]], qv)]

\* ------------------------------------------------------------------------
\* SEC EDGAR and the document structurer / chunker, as seen by the pipeline
\* ------------------------------------------------------------------------
\* str.upper() on a ticker
Upper(t) ==
    CASE t = "aapl" -> "AAPL"
      [] t = "msft" -> "MSFT"
      [] OTHER -> t

\* SECClient.get_company_filings(ticker, [filing_type], limit=1): the most
\* recent filing of that type, or nothing
Edgar(ticker, filing_type) ==
    CASE ticker = "AAPL" /\ filing_type = "10-K" ->
            <<[reportDate |-> 20240928, documentURL |-> "sec.gov/aapl-10k"]>>
      [] ticker = "MSFT" /\ filing_type = "10-K" ->
            <<[reportDate |-> 20240630, documentURL |-> "sec.gov/msft-10k"]>>
      [] ticker = "MSFT" /\ filing_type = "10-Q" ->
            <<[reportDate |-> 20240930, documentURL |-> "sec.gov/msft-10q"]>>
      [] ticker = "AAPL" /\ filing_type = "10-Q" ->
            <<[reportDate |-> 20240629, documentURL |-> "sec.gov/aapl-10q"]>>
      [] OTHER -> <<>>

ChunkData(text, section, chunk_index, chunk_type) ==
    [text |-> text, section |-> section, chunk_index |-> chunk_index,
     chunk_type |-> chunk_type]

\* FinancialDocumentChunker.chunk_filing on the parsed document of a filing
DocChunks(ticker, filing_type) ==
    CASE ticker = "AAPL" /\ filing_type = "10-K" ->
            <<ChunkData("rev-a", SecMDA, 0, "section"),
              ChunkData("rev-b", SecMDA, 1, "section"),
              ChunkData("rev-c", SecMDA, 2, "section"),
              ChunkData("rev-d", SecMDA, 3, "section"),
              ChunkData("rev-e", SecMDA, 4, "section"),
              ChunkData("rev-f", SecTable, 0, "table")>>
      [] ticker = "MSFT" /\ filing_type = "10-K" ->
            <<ChunkData("rev-a", SecMDA, 0, "section"),
              ChunkData("risk-a", SecRisk, 0, "section"),
              ChunkData("risk-b", SecRisk, 1, "section")>>
      [] ticker = "MSFT" /\ filing_type = "10-Q" ->
            <<ChunkData("rev-b", SecMDA, 0, "section"),
              ChunkData("risk-a", SecRisk, 0, "section")>>
      [] ticker = "AAPL" /\ filing_type = "10-Q" ->
            <<ChunkData("rev-a", SecMDA, 0, "section")>>
      [] OTHER -> <<>>

\* ------------------------------------------------------------------------
\* Relational store (Postgres): companies, sec_filings, chunks
\* ------------------------------------------------------------------------
\* the columns of table sec_filings
SECFilingColumns ==
    {"id", "ticker", "filing_type", "filing_date", "report_date", "document_url",
     "document_path", "processed", "num_chunks", "created_at"}

\* DatabaseStorage.upsert_company
upsert_company(db, ticker) == [db EXCEPT !.companies = @ \cup {ticker}]

\* DatabaseStorage.get_filing: the filings with that unique key
get_filing(db, ticker, filing_type, report_date) ==
    {f \in db.filings : /\ f.ticker = ticker
                        /\ f.filing_type = filing_type
                        /\ f.report_date = report_date}

\* DatabaseStorage.delete_filing: the filing and, by cascade, its chunk rows
delete_filing(db, filing_id) ==
    [db EXCEPT !.filings = {f \in @ : f.id # filing_id},
               !.chunks = {c \in @ : c.filing_id # filing_id}]

\* the unique constraint uix_ticker_type_date rejects the insert
ViolatesUnique(db, meta) ==
    get_filing(db, meta.ticker, meta.form, meta.report_date) # {}

\* save_filing_with_chunks, steps 3-6: the filing row and one chunk row per
\* chunk, each with a fresh uuid4 (uuid .. uuid + n - 1), in one commit
InsertFilingAndChunks(db, meta, chunks_data, uuid) ==
    LET fid == db.next_filing_id
        filing == [id |-> fid,
                   ticker |-> meta.ticker,
                   filing_type |-> meta.form,
                   report_date |-> meta.report_date,
                   document_url |-> meta.document_url,
                   processed |-> TRUE,
                   embeddings_generated |-> FALSE,
                   num_chunks |-> Len(chunks_data)]
        rows == {[id |-> uuid + i - 1,
                  filing_id |-> fid,
                  text |-> chunks_data[i].text,
                  section |-> chunks_data[i].section,
                  chunk_index |-> chunks_data[i].chunk_index,
                  chunk_type |-> chunks_data[i].chunk_type] : i \in DOMAIN chunks_data}
    IN [db EXCEPT !.filings = @ \cup {filing},
                  !.chunks = @ \cup rows,
                  !.next_filing_id = @ + 1]

\* DatabaseStorage.save_filing_with_chunks run without interleaving.
\* insertFails: the insert or its commit raises (the deletion of the existing
\* filing is already committed by delete_filing).
save_filing_with_chunks(db, meta, chunks_data, uuid, insertFails) ==
    LET db1 == upsert_company(db, meta.ticker)
        existing == get_filing(db1, meta.ticker, meta.form, meta.report_date)
        db2 == IF existing = {} THEN db1
               ELSE delete_filing(db1, (CHOOSE f \in existing : TRUE).id)
    IN IF insertFails \/ ViolatesUnique(db2, meta)
       THEN [raised |-> TRUE, db |-> db2, filing_id |-> 0, uuid |-> uuid]
       ELSE [raised |-> FALSE,
             db |-> InsertFilingAndChunks(db2, meta, chunks_data, uuid),
             filing_id |-> db2.next_filing_id,
             uuid |-> uuid + Len(chunks_data)]

\* ------------------------------------------------------------------------
\* Filing pipeline (FilingService)
\* ------------------------------------------------------------------------
\* FilingService.check_filing_exists.  Reading filing.embeddings_generated
\* raises AttributeError when sec_filings has no such column.
check_filing_exists(db, ticker, filing_type) ==
    LET found == {f \in db.filings : /\ f.ticker \in db.companies
                                     /\ f.ticker = Upper(ticker)
                                     /\ f.filing_type = filing_type}
        filing == CHOOSE f \in found : \A g \in found : g.report_date <= f.report_date
    IN IF found = {} THEN [kind |-> "none", status |-> None]
       ELSE IF filing.processed
       THEN IF "embeddings_generated" \notin SECFilingColumns
            THEN [kind |-> "raise", status |-> None]
            ELSE IF filing.embeddings_generated
            THEN [kind |-> "info", status |-> "ready"]
            ELSE [kind |-> "info", status |-> "embeddings_pending"]
       ELSE [kind |-> "info", status |-> "processing"]

\* process_filing, step 2: the company row is created when missing
EnsureCompany(db, ticker) == [db EXCEPT !.companies = @ \cup {ticker}]

\* process_filing, step 3: the metadata of the filing fetched from EDGAR
FilingMeta(ticker, filing_type) ==
    LET raw == Edgar(ticker, filing_type)[1]
    IN [ticker |-> ticker,
        form |-> filing_type,
        report_date |-> raw.reportDate,
        document_url |-> raw.documentURL]

\* process_filing, step 8: the chunk rows of the filing, formatted for the
\* retrieval store (rows in id order)
ChunksForEmbedding(db, filing_id, ticker, filing_type, report_date) ==
    LET rows == {c \in db.chunks : c.filing_id = filing_id}
        ids == SetToSeq({c.id : c \in rows})
        row(i) == CHOOSE c \in rows : c.id = ids[i]
    IN [i \in DOMAIN ids |->
          [id |-> row(i).id,
           filing_id |-> row(i).filing_id,
           ticker |-> ticker,
           filing_type |-> filing_type,
           report_date |-> report_date,
           section |-> row(i).section,
           chunk_index |-> row(i).chunk_index,
           chunk_type |-> row(i).chunk_type,
           text |-> row(i).text]]

\* process_filing, "mark as complete": the assignment reaches the table only
\* if embeddings_generated is a column
MarkComplete(db, filing_id) ==
    IF "embeddings_generated" \in SECFilingColumns
    THEN [db EXCEPT !.filings =
             {IF f.id = filing_id THEN [f EXCEPT !.embeddings_generated = TRUE] ELSE f
                : f \in @}]
    ELSE db

\* the faults a run of the pipeline may meet: EDGAR unreachable, the insert
\* of save_filing_with_chunks failing, existence-check batches raising,
\* embed_texts raising, an upsert batch raising (0: none)
NoFaults == [sec |-> FALSE, insert |-> FALSE, failBatches |-> {}, embed |-> FALSE,
             upsertAt |-> 0]

\* FilingService.process_filing run without interleaving.  The result holds
\* the returned status ("raised": an exception left the method) and the
\* stores as the call leaves them.
process_filing(db, idx, uuid, ticker0, filing_type, force_reprocess, F) ==
    LET ticker == Upper(ticker0)
        existing == check_filing_exists(db, ticker, filing_type)
        out(status, d, i, u) == [status |-> status, db |-> d, index |-> i, uuid |-> u]
        db1 == EnsureCompany(db, ticker)
        meta == FilingMeta(ticker, filing_type)
        sv == save_filing_with_chunks(db1, meta, DocChunks(ticker, filing_type), uuid,
                                      F.insert)
        emb == ChunksForEmbedding(sv.db, sv.filing_id, ticker, filing_type,
                                  meta.report_date)
        ac == add_chunks(idx, emb, UploadBatchSize, F.failBatches, F.embed, F.upsertAt)
    IN IF ~force_reprocess /\ existing.kind = "raise" THEN out("raised", db, idx, uuid)
       ELSE IF ~force_reprocess /\ existing.status = "ready"
       THEN out("already_exists", db, idx, uuid)
       ELSE IF F.sec \/ Edgar(ticker, filing_type) = <<>> THEN out("error", db1, idx, uuid)
       ELSE IF sv.raised THEN out("error", sv.db, idx, uuid)
       ELSE IF ac.raised THEN out("error", sv.db, ac.index, sv.uuid)
       ELSE out("success", MarkComplete(sv.db, sv.filing_id), ac.index, sv.uuid)

\* ------------------------------------------------------------------------
\* State
\* ------------------------------------------------------------------------
VARIABLES
    db,           \* relational store
    index,        \* retrieval store: the sequence of points of the collection
    uuid_next,    \* the next value uuid.uuid4() returns
    top_k,        \* settings.top_k
    proc,         \* Spec: per request, its position in the pipeline and locals
    ops,          \* Spec: operations started so far
    hist,         \* Spec: what has happened (forced reprocessing, faults)
    last_add,     \* Spec: the last add_chunks call and what it did
    last_search,  \* Spec: the last search call and what it returned
    qa,           \* SpecQA: the answer_filing_question call
    fn            \* SpecDoc: the document function under way, its input and results

vars == <<db, index, uuid_next, top_k, proc, ops, hist, last_add, last_search, qa, fn>>

\* the requests that run concurrently in Spec
Procs == {"r1", "r2"}

\* the filings the requests of Spec ask for
SpecFilings == {<<"MSFT", "10-K">>, <<"AAPL", "10-Q">>}

IdleProc == [pc |-> "idle", op |-> None, ticker |-> None, filing_type |-> None,
             existing |-> {}, filing_id |-> 0, emb |-> <<>>, emb_ok |-> FALSE,
             result |-> None]

NoAdd == [ids |-> <<>>, embedded |-> <<>>, uploaded |-> <<>>,
          raised |-> FALSE, failBatches |-> {}, resubmit |-> FALSE, prior_ok |-> FALSE]

NoSearch == [called |-> FALSE, query |-> None, limit |-> 0, ticker |-> None,
             filing_type |-> None, section |-> <<>>, results |-> <<>>]

IdleQA == [pc |-> "off"]

IdleFn == [pc |-> "off"]

InitStores ==
    /\ db = [companies |-> {}, filings |-> {}, chunks |-> {}, next_filing_id |-> 1]
    /\ index = <<>>
    /\ uuid_next = 1

Init ==
    /\ InitStores
    /\ top_k = DefaultTopK
    /\ proc = [p \in Procs |-> IdleProc]
    /\ ops = 0
    /\ hist = [forced |-> FALSE, resubmits |-> 0]
    /\ last_add = NoAdd
    /\ last_search = NoSearch
    /\ qa = IdleQA
    /\ fn = IdleFn

\* ------------------------------------------------------------------------
\* Spec: requests running the pipeline, interleaved at transaction boundaries
\* ------------------------------------------------------------------------
QAIdle == UNCHANGED <<top_k, qa, fn>>

\* the request returns: status is what the caller sees
Finish(p, status) ==
    proc' = [proc EXCEPT ![p].pc = "idle", ![p].result = status, ![p].existing = {}]

\* the requests are interchangeable: r1 is the one that starts first
MayStart(p) == p = "r1" \/ proc["r1"].op # None

Goto(p, pc) == proc' = [proc EXCEPT ![p].pc = pc]

\* a request enters get_or_process_filing(ticker, filing_type)
StartGetOrProcess(p) ==
    /\ proc[p].pc = "idle"
    /\ MayStart(p)
    /\ ops < MaxOps
    /\ ~last_search.called
    /\ \E f \in SpecFilings :
          proc' = [proc EXCEPT ![p] = [IdleProc EXCEPT !.pc = "gop_check",
                                          !.op = "get_or_process",
                                          !.ticker = f[1], !.filing_type = f[2]]]
    /\ ops' = ops + 1
    /\ UNCHANGED <<db, index, uuid_next, hist, last_add, last_search>>
    /\ QAIdle

\* a request enters process_filing(ticker, filing_type, force_reprocess=True)
StartForceReprocess(p) ==
    /\ proc[p].pc = "idle"
    /\ MayStart(p)
    /\ ops < MaxOps
    /\ ~last_search.called
    /\ \E f \in SpecFilings :
          proc' = [proc EXCEPT ![p] = [IdleProc EXCEPT !.pc = "pf_company",
                                          !.op = "force_reprocess",
                                          !.ticker = Upper(f[1]), !.filing_type = f[2]]]
    /\ ops' = ops + 1
    /\ hist' = [hist EXCEPT !.forced = TRUE]
    /\ UNCHANGED <<db, index, uuid_next, last_add, last_search>>
    /\ QAIdle

\* get_or_process_filing, step 1 (filing_service.py:663-672)
GopCheck(p) ==
    /\ proc[p].pc = "gop_check"
    /\ LET existing == check_filing_exists(db, proc[p].ticker, proc[p].filing_type)
       IN IF existing.kind = "raise" THEN Finish(p, "raised")
          ELSE IF existing.status = "ready" THEN Finish(p, "exists")
          ELSE proc' = [proc EXCEPT ![p].pc = "pf_check",
                                    ![p].ticker = Upper(proc[p].ticker)]
    /\ UNCHANGED <<db, index, uuid_next, ops, hist, last_add, last_search>>
    /\ QAIdle

\* process_filing, step 1 (filing_service.py:405-413)
PfCheck(p) ==
    /\ proc[p].pc = "pf_check"
    /\ LET existing == check_filing_exists(db, proc[p].ticker, proc[p].filing_type)
       IN IF existing.kind = "raise" THEN Finish(p, "raised")
          ELSE IF existing.status = "ready" THEN Finish(p, "already_exists")
          ELSE Goto(p, "pf_company")
    /\ UNCHANGED <<db, index, uuid_next, ops, hist, last_add, last_search>>
    /\ QAIdle

\* process_filing, step 2 (filing_service.py:417-427)
PfCompany(p) ==
    /\ proc[p].pc = "pf_company"
    /\ db' = EnsureCompany(db, proc[p].ticker)
    /\ Goto(p, "pf_fetch")
    /\ UNCHANGED <<index, uuid_next, ops, hist, last_add, last_search>>
    /\ QAIdle

\* process_filing, steps 3-6: fetch from EDGAR, download, parse, chunk
PfFetch(p) ==
    /\ proc[p].pc = "pf_fetch"
    /\ \E fails \in BOOLEAN :
          IF fails \/ Edgar(proc[p].ticker, proc[p].filing_type) = <<>>
          THEN Finish(p, "error")
          ELSE Goto(p, "sv_check")
    /\ UNCHANGED <<db, index, uuid_next, ops, hist, last_add, last_search>>
    /\ QAIdle

\* save_filing_with_chunks, steps 1-2: upsert the company, look for the
\* existing filing (storage.py:184-195)
SvCheck(p) ==
    /\ proc[p].pc = "sv_check"
    /\ LET meta == FilingMeta(proc[p].ticker, proc[p].filing_type)
           db1 == upsert_company(db, meta.ticker)
           found == get_filing(db1, meta.ticker, meta.form, meta.report_date)
       IN /\ db' = db1
          /\ proc' = [proc EXCEPT ![p].existing = {f.id : f \in found},
                                  ![p].pc = IF found = {} THEN "sv_insert"
                                            ELSE "sv_delete"]
    /\ UNCHANGED <<index, uuid_next, ops, hist, last_add, last_search>>
    /\ QAIdle

\* save_filing_with_chunks: delete_filing(existing.id), committed at once
\* (storage.py:198-199, 133-149)
SvDelete(p) ==
    /\ proc[p].pc = "sv_delete"
    /\ \E fid \in proc[p].existing : db' = delete_filing(db, fid)
    /\ Goto(p, "sv_insert")
    /\ UNCHANGED <<index, uuid_next, ops, hist, last_add, last_search>>
    /\ QAIdle

\* save_filing_with_chunks, steps 3-6 and the commit (storage.py:201-271)
SvInsert(p) ==
    /\ proc[p].pc = "sv_insert"
    /\ LET meta == FilingMeta(proc[p].ticker, proc[p].filing_type)
           chunks_data == DocChunks(proc[p].ticker, proc[p].filing_type)
       IN \E fails \in BOOLEAN :
             /\ IF fails \/ ViolatesUnique(db, meta)
                THEN /\ Finish(p, "error")
                     /\ UNCHANGED <<db, uuid_next>>
                ELSE /\ db' = InsertFilingAndChunks(db, meta, chunks_data, uuid_next)
                     /\ uuid_next' = uuid_next + Len(chunks_data)
                     /\ proc' = [proc EXCEPT ![p].filing_id = db.next_filing_id,
                                             ![p].pc = "pf_query"]
    /\ UNCHANGED <<index, ops, hist, last_add, last_search>>
    /\ QAIdle

\* process_filing, step 8: read the chunk rows of the filing
\* (filing_service.py:506-527)
PfQuery(p) ==
    /\ proc[p].pc = "pf_query"
    /\ LET meta == FilingMeta(proc[p].ticker, proc[p].filing_type)
       IN proc' = [proc EXCEPT
                     ![p].emb = ChunksForEmbedding(db, proc[p].filing_id, proc[p].ticker,
                                                   proc[p].filing_type, meta.report_date),
                     ![p].pc = "pf_add"]
    /\ UNCHANGED <<db, index, uuid_next, ops, hist, last_add, last_search>>
    /\ QAIdle

\* the faults one add_chunks call over n chunks may meet: any set of
\* existence-check batches raising, or embed_texts raising, or one upsert
\* batch raising
AddFaults(n) ==
    {[NoFaults EXCEPT !.failBatches = fb] :
        fb \in SUBSET (1..NumBatches(n, RetrieveBatchSize))}
    \cup {[NoFaults EXCEPT !.embed = TRUE]}
    \cup {[NoFaults EXCEPT !.upsertAt = k] : k \in 1..NumBatches(n, UploadBatchSize)}

\* the record of an add_chunks call
AddRecord(chunks, ac, failBatches, resubmit, prior_ok) ==
    [ids |-> [i \in DOMAIN chunks |-> chunks[i].id],
     embedded |-> ac.embedded,
     uploaded |-> ac.uploaded,
     raised |-> ac.raised,
     failBatches |-> failBatches,
     resubmit |-> resubmit,
     prior_ok |-> prior_ok]

\* process_filing: vector_store.add_chunks(chunks_for_embedding, batch_size=100)
\* (filing_service.py:530)
PfAdd(p) ==
    /\ proc[p].pc = "pf_add"
    /\ \E F \in AddFaults(Len(proc[p].emb)) :
          LET ac == add_chunks(index, proc[p].emb, UploadBatchSize, F.failBatches,
                               F.embed, F.upsertAt)
          IN /\ index' = ac.index
             /\ last_add' = AddRecord(proc[p].emb, ac, F.failBatches, FALSE, FALSE)
             /\ IF ac.raised
                THEN Finish(p, "error")
                ELSE proc' = [proc EXCEPT ![p].pc = "pf_mark", ![p].emb_ok = TRUE]
    /\ UNCHANGED <<db, uuid_next, ops, hist, last_search>>
    /\ QAIdle

\* process_filing: mark as complete and return (filing_service.py:533-555)
PfMark(p) ==
    /\ proc[p].pc = "pf_mark"
    /\ db' = MarkComplete(db, proc[p].filing_id)
    /\ Finish(p, "success")
    /\ UNCHANGED <<index, uuid_next, ops, hist, last_add, last_search>>
    /\ QAIdle

\* add_chunks called again with the chunk set a request submitted before
ResubmitChunks(p) ==
    /\ proc[p].pc = "idle"
    /\ proc[p].emb # <<>>
    /\ hist.resubmits < MaxResubmits
    /\ ~last_search.called
    /\ \E F \in AddFaults(Len(proc[p].emb)) :
          LET ac == add_chunks(index, proc[p].emb, UploadBatchSize, F.failBatches,
                               F.embed, F.upsertAt)
          IN /\ index' = ac.index
             /\ last_add' = AddRecord(proc[p].emb, ac, F.failBatches, TRUE,
                                      proc[p].emb_ok)
             /\ hist' = [hist EXCEPT !.resubmits = @ + 1]
             /\ proc' = [proc EXCEPT ![p].emb_ok = @ \/ ~ac.raised]
    /\ UNCHANGED <<db, uuid_next, ops, last_search>>
    /\ QAIdle

\* VectorStore.search, called between the runs of the pipeline.  A search
\* changes neither store, so the requests of the model stop once a search
\* has been recorded: what could follow it could follow without it.
Search ==
    /\ \A p \in Procs : proc[p].pc = "idle"
    /\ index # <<>>
    /\ ~last_search.called
    /\ LET \* the calls of search: query, limit (0: None), ticker, filing type
           \* and section
           SearchCalls ==
               {<<"revenue", 0, None, None, <<>> >>,
                <<"revenue", 1, None, None, <<>> >>,
                <<"revenue", 0, "MSFT", None, <<>> >>,
                <<"revenue", 1, "MSFT", None, <<>> >>,
                <<"revenue", 0, "AAPL", None, <<"7">> >>,
                <<"revenue", 0, None, "10-K", <<"item", " ", "1", "a">> >>,
                <<"revenue", 0, "MSFT", "10-Q", <<>> >>,
                <<"revenue", 0, "MSFT", "10-K", <<"Item", " ", "7">> >>,
                <<"weather", 0, None, None, <<>> >>,
                <<"weather", 0, "AAPL", None, <<"7">> >>}
       IN \E c \in SearchCalls :
             last_search' = [called |-> TRUE, query |-> c[1], limit |-> c[2],
                             ticker |-> c[3], filing_type |-> c[4], section |-> c[5],
                             results |-> search(index, c[1], c[2], c[3], c[4], c[5], top_k)]
    /\ UNCHANGED <<db, index, uuid_next, proc, ops, hist, last_add>>
    /\ QAIdle

ProcStep(p) ==
    \/ StartGetOrProcess(p)
    \/ StartForceReprocess(p)
    \/ GopCheck(p)
    \/ PfCheck(p)
    \/ PfCompany(p)
    \/ PfFetch(p)
    \/ SvCheck(p)
    \/ SvDelete(p)
    \/ SvInsert(p)
    \/ PfQuery(p)
    \/ PfAdd(p)
    \/ PfMark(p)
    \/ ResubmitChunks(p)

Next ==
    \/ \E p \in Procs : ProcStep(p)
    \/ Search

Spec == Init /\ [][Next]_vars

\* ------------------------------------------------------------------------
\* Properties of the retrieval store and the pipeline (Spec)
\* ------------------------------------------------------------------------
PointsWithId(id) == {i \in DOMAIN index : index[i].id = id}

\* C1: a repeated add_chunks call with a chunk set that an earlier call has
\* indexed, the existence checks succeeding, embeds nothing and uploads
\* nothing, and the index holds exactly one point per chunk id of the set.
C1_UpsertIdempotent ==
    (last_add.resubmit /\ last_add.prior_ok /\ last_add.failBatches = {}) =>
        /\ last_add.embedded = <<>>
        /\ last_add.uploaded = <<>>
        /\ ~last_add.raised
        /\ \A id \in Range(last_add.ids) : Cardinality(PointsWithId(id)) = 1

C1_Witness ==
    /\ last_add.resubmit
    /\ last_add.prior_ok
    /\ last_add.failBatches = {}
    /\ Len(last_add.ids) >= 2
    /\ \A id \in Range(last_add.ids) : HasPoint(index, id)

\* C4: a search returns only chunks that satisfy every filter it was given
\* (ticker, filing type, section), and the filters apply before the ranking:
\* the limit cuts the points that satisfy every given filter and reach the
\* score threshold, not the whole collection.
C4_FilteredSearch ==
    last_search.called =>
        LET ls == last_search
            eligible ==
                {i \in DOMAIN index :
                    /\ (ls.ticker # None => index[i].ticker = ls.ticker)
                    /\ (ls.filing_type # None => index[i].filing_type = ls.filing_type)
                    /\ (ls.section # <<>> =>
                           index[i].section = SearchSectionFilter(ls.section))
                    /\ Cosine(embed_text(ls.query), index[i].vector) >= ScoreThreshold}
        IN /\ \A k \in DOMAIN last_search.results :
                 LET r == last_search.results[k]
                 IN /\ last_search.ticker # None => r.ticker = last_search.ticker
                    /\ last_search.filing_type # None =>
                           r.filing_type = last_search.filing_type
                    /\ last_search.section # <<>> =>
                           r.section = SearchSectionFilter(last_search.section)
           /\ Len(last_search.results) =
                 Min(IF last_search.limit = 0 THEN top_k ELSE last_search.limit,
                     Cardinality(eligible))

C4_Witness ==
    /\ last_search.called
    /\ last_search.ticker = "MSFT"
    /\ last_search.results # <<>>
    /\ \E i \in DOMAIN index :
          /\ index[i].ticker # "MSFT"
          /\ Cosine(embed_text(last_search.query), index[i].vector) >= ScoreThreshold

\* the chunk ids the relational store holds for a filing
DbChunkIds(filing_id) == {c.id : c \in {r \in db.chunks : r.filing_id = filing_id}}

\* the ids of the points the index holds for a filing key
IndexIdsOf(ticker, filing_type, report_date) ==
    {index[i].id : i \in {k \in DOMAIN index : /\ index[k].ticker = ticker
                                                  /\ index[k].filing_type = filing_type
                                                  /\ index[k].report_date = report_date}}

Quiescent == \A p \in Procs : proc[p].pc = "idle"

\* C8: after a forced reprocessing of a filing has returned success, exactly
\* one filing record exists for its key, and the relational store and the
\* vector index both hold exactly the chunk ids of the new version.
C8_ReplaceLeavesOnlyNewVersion ==
    \A p \in Procs :
        (/\ Quiescent
         /\ proc[p].op = "force_reprocess"
         /\ proc[p].result = "success"
         /\ \E f \in db.filings : f.id = proc[p].filing_id) =>
            LET f == CHOOSE g \in db.filings : g.id = proc[p].filing_id
                new == {proc[p].emb[i].id : i \in DOMAIN proc[p].emb}
            IN /\ Cardinality(get_filing(db, f.ticker, f.filing_type, f.report_date)) = 1
               /\ DbChunkIds(f.id) = new
               /\ IndexIdsOf(f.ticker, f.filing_type, f.report_date) = new

\* C9: when two requests have run get_or_process_filing for the same filing,
\* starting with the filing not indexed, and both have returned success, one
\* filing record exists for the key and the index holds exactly the chunks
\* the relational store holds for it.
C9_ConcurrentRequestsEndCorrect ==
    (/\ Quiescent
     /\ ~hist.forced
     /\ \A p \in Procs : proc[p].op = "get_or_process" /\ proc[p].result = "success"
     /\ \A p, q \in Procs : /\ proc[p].ticker = proc[q].ticker
                            /\ proc[p].filing_type = proc[q].filing_type) =>
        \A p \in Procs :
            LET meta == FilingMeta(proc[p].ticker, proc[p].filing_type)
                found == get_filing(db, meta.ticker, meta.form, meta.report_date)
            IN /\ Cardinality(found) = 1
               /\ \A f \in found :
                     IndexIdsOf(meta.ticker, meta.form, meta.report_date) = DbChunkIds(f.id)
               /\ \A id \in IndexIdsOf(meta.ticker, meta.form, meta.report_date) :
                     Cardinality(PointsWithId(id)) = 1

\* C10: add_chunks fails open.  When it returns normally every incoming chunk
\* id is in the index, and the chunks of a batch whose existence check raised
\* have been embedded and uploaded.
C10_FailOpen ==
    ~last_add.raised =>
        /\ \A id \in Range(last_add.ids) : HasPoint(index, id)
        /\ \A i \in DOMAIN last_add.ids :
              BatchOf(i, RetrieveBatchSize) \in last_add.failBatches =>
                 /\ last_add.ids[i] \in Range(last_add.embedded)
                 /\ last_add.ids[i] \in Range(last_add.uploaded)

C10_Witness ==
    /\ ~last_add.raised
    /\ last_add.failBatches # {}
    /\ last_add.resubmit
    /\ last_add.embedded # <<>>
    /\ Len(last_add.embedded) < Len(last_add.ids)

\* ------------------------------------------------------------------------
\* Question answering (filing_qa_tool.py): plan, execute, synthesize, format
\* ------------------------------------------------------------------------
\* a key that a dict does not have / a field the model output leaves out
Absent == "absent"

\* DataPrepTool.get_or_process_filing: get the filing or build it with the
\* pipeline; the status is "exists", "success" or "error".  The filing is
\* taken as it is when it is stored and fully indexed.
DataPrepTool_get_or_process_filing(d, idx, uuid, ticker, filing_type, F) ==
    LET FullyIndexed ==
            \E f \in d.filings :
                /\ f.ticker = Upper(ticker)
                /\ f.filing_type = filing_type
                /\ f.processed
                /\ {c.id : c \in {r \in d.chunks : r.filing_id = f.id}}
                      \subseteq {idx[i].id : i \in DOMAIN idx}
    IN IF FullyIndexed
       THEN [status |-> "exists", db |-> d, index |-> idx, uuid |-> uuid]
       ELSE process_filing(d, idx, uuid, ticker, filing_type, TRUE, F)

\* execute_plan, lines 484-486: the task is searched only when the ensure
\* step returned one of these statuses; otherwise it is skipped
PrepAccepted(status) == status \in {"exists", "success"}


\* one task of a plan; None stands for a key the task does not have
Task(ticker, filing_type, search_query) ==
    [ticker |-> ticker, filing_type |-> filing_type, search_query |-> search_query]

\* the plans get_plan may return: up to MaxTasks tasks
Plans ==
    LET \* the tasks a planner output is made of
        PlanTasks ==
            {Task("AAPL", None, "revenue"), Task("AAPL", "10-Q", "revenue"),
             Task("MSFT", None, "revenue"), Task("msft", None, "risk"),
             Task("ZZZZ", None, "revenue"),
             Task(None, None, "revenue"), Task("", "10-K", "risk"),
             Task("AAPL", None, None), Task("AAPL", None, "weather")}
    IN  UNION {[1..n -> PlanTasks] : n \in 0..MaxTasks}

Keys(results) == {results[i].ticker : i \in DOMAIN results}

\* results_by_company[ticker].extend(chunks), the key created when missing
Extend(results, ticker, chunks) ==
    IF \E i \in DOMAIN results : results[i].ticker = ticker
    THEN [i \in DOMAIN results |->
            IF results[i].ticker = ticker
            THEN [results[i] EXCEPT !.chunks = @ \o chunks]
            ELSE results[i]]
    ELSE Append(results, [ticker |-> ticker, chunks |-> chunks])

\* the list returned whole
CapEvidence_Uncapped(chunks) == chunks

\* unique_chunks[:5]
CapEvidence(chunks) == SubSeq(chunks, 1, Min(EvidenceCap, Len(chunks)))

\* execute_plan, lines 509-513: deduplicate per company and cut to the cap.
\* list({chunk['id']: chunk for chunk in chunks}.values()) keeps one chunk
\* per id, at the position of the id's first occurrence, the value of its last
FinishResults(results) ==
    LET DedupById(chunks) ==
            LET first == {i \in DOMAIN chunks :
                             \A j \in 1..(i - 1) : chunks[j].id # chunks[i].id}
                order == SetToSeq(first)
                last(i) == CHOOSE j \in DOMAIN chunks :
                              /\ chunks[j].id = chunks[i].id
                              /\ \A k \in DOMAIN chunks :
                                    chunks[k].id = chunks[i].id => k <= j
            IN [n \in DOMAIN order |-> chunks[last(order[n])]]
    IN [i \in DOMAIN results |->
          [results[i] EXCEPT !.chunks = CapEvidence(DedupById(@))]]

\* ------------------------------------------------------------------------
\* The synthesizer's output as JSON text.  A JSON value carries its type t;
\* a text is what stands before the value (nothing, prose, a code fence),
\* the value, where the text was cut, and what stands after it.
\* ------------------------------------------------------------------------
\* an element of answer.sections: an object with a type and a content
\* (content: "text", a string that is itself the JSON of an answer:
\* "nested", "nested_cut" = its closing braces missing, "nested_bad" = not
\* parseable, or "obj" = not a string), or a value of another type
Section(type, content) == [t |-> "dict", type |-> type, content |-> content]

Elem(t) == [t |-> t, type |-> Absent, content |-> Absent]

Paragraph(content) == Section("paragraph", content)

Scalar(t, nonempty) == [t |-> t, nonempty |-> nonempty, items |-> <<>>]

\* the value of "answer"
AnswerVal(t, sections) == [t |-> t, sections |-> sections]

AnswerOf(items) ==
    AnswerVal("dict", [t |-> "list", nonempty |-> items # <<>>, items |-> items])

\* the value of "companies": for an object, its keys
CompaniesVal(t, keys) == [t |-> t, keys |-> keys]

\* the value of "comparison": for an object, the values of its three keys
\* (None: null, Absent: key missing)
ComparisonVal(t, summary, winner, metric) ==
    [t |-> t, summary |-> summary, winner |-> winner, metric |-> metric]

NoComparison == ComparisonVal(Absent, Absent, Absent, Absent)

EmptyDict == ComparisonVal("dict", Absent, Absent, Absent)

ClearedComparison == ComparisonVal("dict", None, None, None)

\* the value of "missing_data"
MissingVal(t, items) == [t |-> t, items |-> items]

\* a JSON object with the top-level keys of the synthesizer schema
Obj(answer, companies, comparison, confidence, missing_data) ==
    [answer |-> answer, companies |-> companies, comparison |-> comparison,
     confidence |-> confidence, missing_data |-> missing_data]

\* the answer a content string holds when it is itself JSON
NestedObj ==
    Obj(AnswerOf(<<Paragraph("text")>>), CompaniesVal("dict", {"AAPL", "TSLA"}),
        NoComparison, "low", MissingVal("list", <<"segment data">>))

\* the output of the model
RawText(pre, kind, obj, cut, post) ==
    [pre |-> pre, kind |-> kind, obj |-> obj, cut |-> cut, post |-> post]

GoodAnswer == AnswerOf(<<Paragraph("text"), Section("table", "text")>>)

GoodObj ==
    Obj(GoodAnswer, CompaniesVal("dict", {"AAPL"}), NoComparison, "high",
        MissingVal("list", <<>>))

\* the raw outputs rag_tool.generate may return
RawOutputs ==
    LET \* the tickers a model writes about
        ModelTickers == {"AAPL", "MSFT", "TSLA"}
        \* the comparison blocks a model writes
        ModelComparisons ==
            {NoComparison, EmptyDict, ClearedComparison,
             ComparisonVal("null", Absent, Absent, Absent),
             ComparisonVal("str", Absent, Absent, Absent),
             ComparisonVal("dict", "text", "AAPL", "text"),
             ComparisonVal("dict", "text", None, Absent),
             ComparisonVal("dict", None, "TSLA", None),
             ComparisonVal("dict", "", "", ""),
             ComparisonVal("dict", "", None, None)}
        \* the values a model writes for "answer"
        ModelAnswers ==
            {AnswerVal(Absent, Scalar(Absent, FALSE)),
             AnswerVal("null", Scalar(Absent, FALSE)),
             AnswerVal("str", Scalar(Absent, FALSE)),
             AnswerVal("list", Scalar(Absent, FALSE)),
             AnswerVal("dict", Scalar(Absent, FALSE)),
             AnswerVal("dict", Scalar("null", FALSE)),
             AnswerVal("dict", Scalar("str", TRUE)),
             AnswerVal("dict", Scalar("str", FALSE)),
             AnswerVal("dict", Scalar("num", TRUE)),
             AnswerVal("dict", Scalar("dict", TRUE)),
             AnswerVal("dict", Scalar("dict", FALSE)),
             AnswerOf(<<>>),
             AnswerOf(<<Elem("str")>>),
             AnswerOf(<<Elem("null"), Paragraph("text")>>),
             AnswerOf(<<Section(Absent, Absent)>>),
             AnswerOf(<<Paragraph("obj")>>),
             AnswerOf(<<Paragraph("nested")>>),
             AnswerOf(<<Paragraph("nested_cut")>>),
             AnswerOf(<<Paragraph("nested_bad")>>),
             AnswerOf(<<Section("comparison_summary", "text")>>),
             GoodAnswer}
        \* the JSON objects a model writes
        ModelObjects ==
            {Obj(GoodAnswer, CompaniesVal("dict", K), c, "high", MissingVal("list", <<>>)) :
                K \in SUBSET ModelTickers, c \in ModelComparisons}
            \cup {Obj(a, CompaniesVal("dict", {"AAPL"}), NoComparison, Absent,
                      MissingVal(Absent, <<>>)) : a \in ModelAnswers}
            \cup {Obj(GoodAnswer, CompaniesVal(t, {}), ComparisonVal("dict", "text", "AAPL", "text"),
                      conf, MissingVal("list", <<"segment data">>)) :
                     t \in {Absent, "null", "list", "dict"}, conf \in {"low", "medium"}}
        \* how a model wraps or cuts its JSON object
        \* cut: "" whole; "tail" closing braces missing after a value; "tail_brace"
        \* the last closing brace missing after an inner closing brace; "string" cut
        \* inside the last content string
        Wrappings ==
            {<<"", "", "">>, <<"prose", "", "prose">>, <<"prose", "", "">>, <<"fence", "", "fence">>,
             <<"", "", "prose">>, <<"", "tail", "">>, <<"", "tail_brace", "">>,
             <<"", "string", "">>, <<"prose", "tail", "">>}
        WrapObjects ==
            {GoodObj,
             Obj(AnswerVal("dict", Scalar("str", TRUE)), CompaniesVal("dict", {"AAPL"}),
                 NoComparison, Absent, MissingVal(Absent, <<>>)),
             Obj(AnswerVal("dict", Scalar("null", FALSE)), CompaniesVal("dict", {"TSLA"}),
                 ComparisonVal("dict", "text", "AAPL", "text"), "high", MissingVal(Absent, <<>>)),
             Obj(AnswerOf(<<Paragraph("text")>>), CompaniesVal("dict", {"AAPL", "MSFT"}),
                 ComparisonVal("dict", "", "", ""), Absent, MissingVal("list", <<"segment data">>))}
    IN  {RawText("", "object", o, "", "") : o \in ModelObjects}
        \cup {RawText(w[1], "object", o, w[2], w[3]) : w \in Wrappings, o \in WrapObjects}
        \cup {RawText(pre, kind, GoodObj, "", "") :
                 pre \in {"", "prose"},
                 kind \in {"list_of_one", "list", "string", "number", "null", "prose"}}

\* ------------------------------------------------------------------------
\* synthesize_answer (filing_qa_tool.py:524-776)
\* ------------------------------------------------------------------------
\* dict.get(key, default) on a parsed object
GetOr(v, default) == IF v.t = Absent THEN default ELSE v

\* "structured": {}
NoStructured ==
    [companies |-> CompaniesVal(Absent, {}), comparison |-> NoComparison,
     confidence |-> Absent, missing_data |-> MissingVal(Absent, <<>>)]

\* what synthesize_answer hands back: the exception that left it, or the
\* answer and the structured data; tier names the return statement
SynthReturn(tier, answer, structured) ==
    [raised |-> FALSE, exc |-> None, tier |-> tier, answer |-> answer,
     structured |-> structured]

SynthRaise(exc) ==
    [raised |-> TRUE, exc |-> exc, tier |-> None, answer |-> AnswerOf(<<>>),
     structured |-> NoStructured]

\* the structured data built from a parsed object (lines 697-707, 740-750)
StructuredOf(P, default_confidence) ==
    [companies |-> GetOr(P.companies, CompaniesVal("dict", {})),
     comparison |-> GetOr(P.comparison, EmptyDict),
     confidence |-> IF P.confidence = Absent THEN default_confidence ELSE P.confidence,
     missing_data |-> GetOr(P.missing_data, MissingVal("list", <<>>))]

\* a non-dict answer becomes one paragraph holding str(answer)
AnswerContent(answer) ==
    IF answer.t = "dict" THEN answer ELSE AnswerOf(<<Paragraph("str(answer)")>>)

\* lines 631-708: the parsed object is unwrapped when double-nested, and
\* returned
ParsedPath(P) ==
    LET \* bool(x) of an element of answer.sections
        ElemTruthy(x) ==
            CASE x.t = "dict" -> x.type # Absent \/ x.content # Absent
              [] x.t = "null" -> FALSE
              [] OTHER -> TRUE
        \* answer["sections"][0] if answer["sections"] else None
        FirstSection(S) ==
            IF ~S.nonempty THEN [exc |-> None, elem |-> Elem("null")]
            ELSE CASE S.t = "list" -> [exc |-> None, elem |-> S.items[1]]
                   [] S.t = "str" -> [exc |-> None, elem |-> Elem("str")]
                   [] S.t = "dict" -> [exc |-> "KeyError", elem |-> Elem("null")]
                   [] OTHER -> [exc |-> "TypeError", elem |-> Elem("null")]
        \* lines 639-682: the content string is itself the JSON of an answer, whole
        \* or repairable by closing its braces
        NestedAnswer(content) == content \in {"nested", "nested_cut"}
        answer == GetOr(P.answer, AnswerVal("str", Scalar(Absent, FALSE)))
        hasSections == answer.t = "dict" /\ answer.sections.t # Absent
        first == FirstSection(answer.sections)
        e == first.elem
        nested == e.t = "dict" /\ NestedAnswer(e.content)
        P2 == IF hasSections /\ nested THEN NestedObj ELSE P
        answer2 == IF hasSections /\ nested THEN NestedObj.answer ELSE answer
    IN IF hasSections /\ first.exc # None THEN SynthRaise(first.exc)
       ELSE IF hasSections /\ ElemTruthy(e) /\ e.t # "dict" THEN SynthRaise("AttributeError")
       ELSE SynthReturn("parsed", AnswerContent(answer2), StructuredOf(P2, "medium"))

\* lines 710-776: the fallbacks after the text failed to parse
Fallback(raw) ==
    LET \* lines 718-724: the text, closed with its missing braces when it does not
        \* end with one, parses: to an object, or to a value of another type
        RepairedIsObject ==
            raw.kind = "object" /\ raw.pre = "" /\ raw.post = "" /\ raw.cut = "tail"
        RepairedIsOtherValue ==
            raw.kind \in {"list", "string", "number", "null"} /\ raw.pre = "" /\ raw.post = ""
        \* lines 728-751
        RepairedPath(P) ==
            SynthReturn("repaired",
                        AnswerContent(GetOr(P.answer, AnswerVal("dict", Scalar(Absent, FALSE)))),
                        StructuredOf(P, "low"))
        \* line 757: the complete "content": "..." strings of the text
        ContentMatches ==
            LET S == raw.obj.answer.sections
                strings == IF raw.kind \in {"object", "list_of_one"}
                              /\ raw.obj.answer.t = "dict" /\ S.t = "list"
                           THEN Len(SelectSeq(S.items,
                                      LAMBDA e : e.t = "dict" /\ e.content \notin {Absent, "obj"}))
                           ELSE 0
            IN IF raw.cut = "string" /\ strings > 0 THEN strings - 1 ELSE strings
    IN  IF RepairedIsObject THEN RepairedPath(raw.obj)
        ELSE IF RepairedIsOtherValue THEN SynthRaise("AttributeError")
        ELSE IF ContentMatches > 0
        THEN SynthReturn("extracted", AnswerOf(<<Paragraph("extracted")>>), NoStructured)
        ELSE SynthReturn("apology", AnswerOf(<<Paragraph("apology")>>), NoStructured)

\* synthesize_answer(query, chunks_by_company) when the model returns raw
synthesize_answer(chunks_by_company, raw) ==
    LET \* lines 611-629: the text parses to a JSON object, either whole (it starts
        \* with a brace) or as the fenced / brace-delimited span found in it
        ParsesAsObject ==
            IF raw.pre = "" /\ raw.kind = "object"
            THEN raw.cut = "" /\ raw.post = ""
            ELSE raw.kind \in {"object", "list_of_one"} /\ raw.cut = ""
    IN  IF chunks_by_company = <<>>
        THEN SynthReturn("empty", AnswerOf(<<Paragraph("not_found")>>), NoStructured)
        ELSE IF ParsesAsObject THEN ParsedPath(raw.obj)
        ELSE Fallback(raw)

\* ------------------------------------------------------------------------
\* answer_filing_question, lines 831-853, and format_answer_for_ui
\* ------------------------------------------------------------------------
\* every company of the model output kept
KeepCompanies_All(keys, valid_tickers) == keys

\* lines 844-847: the companies that were not in the context are deleted
KeepCompanies(keys, valid_tickers) == keys \ (keys \ valid_tickers)

\* lines 839-853: the structured data after the filter, or the exception
FilterStructured(structured, valid_tickers) ==
    LET \* any(comparison_data.values())
        AnyValue(c) == \E v \in {c.summary, c.winner, c.metric} : v \notin {Absent, None, ""}
        \* bool(comparison_data) for an object: it has a key
        HasKeys(c) == \E v \in {c.summary, c.winner, c.metric} : v # Absent
        companies_data == GetOr(structured.companies, CompaniesVal("dict", {}))
        kept == KeepCompanies(companies_data.keys, valid_tickers)
        s1 == IF structured.companies.t = Absent THEN structured
              ELSE [structured EXCEPT !.companies = CompaniesVal("dict", kept)]
        comparison_data == GetOr(structured.comparison, EmptyDict)
    IN IF companies_data.t # "dict" THEN [exc |-> "AttributeError", structured |-> structured]
       ELSE IF Cardinality(kept) <= 1
       THEN CASE comparison_data.t = "str" ->
                     [exc |-> "AttributeError", structured |-> s1]
              [] comparison_data.t = "dict" /\ HasKeys(comparison_data)
                                             /\ AnyValue(comparison_data) ->
                     [exc |-> None,
                      structured |-> [s1 EXCEPT !.comparison = ClearedComparison]]
              [] OTHER -> [exc |-> None, structured |-> s1]
       ELSE [exc |-> None, structured |-> s1]

\* get_filing_urls_by_tickers: the most recent 10-K of each ticker
get_filing_urls_by_tickers(d, tickers) ==
    {[ticker |-> f.ticker, document_url |-> f.document_url] :
        f \in {g \in d.filings :
                 /\ g.ticker \in tickers
                 /\ g.filing_type = "10-K"
                 /\ \A h \in d.filings :
                       h.ticker = g.ticker /\ h.filing_type = "10-K"
                          => h.report_date <= g.report_date}}

\* format_answer_for_ui(synthesis_result, sources): the UI answer, or the
\* exception
format_answer_for_ui(final) ==
    LET \* format_answer_for_ui, lines 134-147: the component of each section
        Component(section) ==
            CASE section.type = "table" -> "Table"
              [] section.type = "key_findings" -> "KeyFindings"
              [] section.type = "comparison_summary" -> "ComparisonSummary"
              [] OTHER -> "Paragraph"
        \* iterating sections_raw and calling section.get raises unless it is a list
        \* of objects or an empty string or object
        S == final.answer.sections
        SectionsIterable ==
            CASE S.t = Absent -> TRUE
              [] S.t = "list" -> \A i \in DOMAIN S.items : S.items[i].t = "dict"
              [] S.t \in {"str", "dict"} -> ~S.nonempty
              [] OTHER -> FALSE
        structured_data == final.structured
        comparison_data == GetOr(structured_data.comparison, EmptyDict)
        formatted == [i \in DOMAIN S.items |-> Component(S.items[i])]
        addSummary == /\ comparison_data.t = "dict"
                      /\ comparison_data.summary \notin {Absent, None, ""}
                      /\ \A i \in DOMAIN S.items : S.items[i].type # "comparison_summary"
    IN IF ~SectionsIterable THEN [exc |-> "TypeError"]
       ELSE IF comparison_data.t = "str" THEN [exc |-> "AttributeError"]
       ELSE [exc |-> None,
             sections |-> IF addSummary THEN Append(formatted, "ComparisonSummary")
                          ELSE formatted,
             companies |-> GetOr(structured_data.companies, CompaniesVal("dict", {})),
             comparison |-> comparison_data,
             confidence |-> IF structured_data.confidence = Absent THEN "medium"
                            ELSE structured_data.confidence,
             missing_data |-> GetOr(structured_data.missing_data,
                                    MissingVal("list", <<>>)).items]

\* ------------------------------------------------------------------------
\* get_plan (filing_qa_tool.py:367-436): the planner's response is a text of
\* tokens: an opening brace, a closing brace, prose ("x"), the members of a
\* plan object ("tasks": the key tasks with its list; "other": other keys)
\* ------------------------------------------------------------------------
\* response_content.find('{'): the first position of the token, or 0
Find(text, tok) ==
    IF \E i \in DOMAIN text : text[i] = tok
    THEN CHOOSE i \in DOMAIN text : text[i] = tok /\ \A j \in 1..(i - 1) : text[j] # tok
    ELSE 0

\* response_content.rfind('}'): the last position of the token, or 0
RFind(text, tok) ==
    IF \E i \in DOMAIN text : text[i] = tok
    THEN CHOOSE i \in DOMAIN text : text[i] = tok /\ \A j \in (i + 1)..Len(text) : text[j] # tok
    ELSE 0

\* response_content[json_start_index:json_end_index]
JsonSpan(text) ==
    LET a == Find(text, "{")
        b == RFind(text, "}")
    IN IF a <= b THEN SubSeq(text, a, b) ELSE <<>>

\* json.loads(json_str) returns: the text is one JSON object
LoadsObject(span) ==
    /\ Len(span) >= 2
    /\ span[1] = "{"
    /\ span[Len(span)] = "}"
    /\ \A i \in 2..(Len(span) - 1) : span[i] \in {"tasks", "other"}

\* a failed parse answered with a plan without tasks
get_plan_EmptyPlanOnError(response) ==
    LET span == JsonSpan(response.text)
        found == Find(response.text, "{") # 0 /\ RFind(response.text, "}") # 0
        has == \E i \in DOMAIN span : span[i] = "tasks"
    IN IF found /\ LoadsObject(span)
       THEN [none |-> FALSE, empty |-> Len(span) = 2, has_tasks |-> has,
             tasks |-> IF has THEN response.tasks ELSE <<>>]
       ELSE [none |-> FALSE, empty |-> FALSE, has_tasks |-> TRUE, tasks |-> <<>>]

\* get_plan, lines 405-436, on the response of the one llm.invoke call: None,
\* or the parsed object (has_tasks: it has the key tasks; empty: it has no key)
get_plan(response) ==
    LET span == JsonSpan(response.text)
        found == Find(response.text, "{") # 0 /\ RFind(response.text, "}") # 0
        has == \E i \in DOMAIN span : span[i] = "tasks"
    IN IF found /\ LoadsObject(span)
       THEN [none |-> FALSE, empty |-> Len(span) = 2, has_tasks |-> has,
             tasks |-> IF has THEN response.tasks ELSE <<>>]
       ELSE [none |-> TRUE, empty |-> FALSE, has_tasks |-> FALSE, tasks |-> <<>>]

\* the planner's response: its text and the task list its "tasks" token holds
Response(text, tasks) == [text |-> text, tasks |-> tasks]

\* the responses llm.invoke may return
PlannerResponses ==
    LET PlannerTokens == {"{", "}", "x", "tasks", "other"}
        \* the plans a response other than the bare plan object carries
        WrappedPlans == {<<>>, <<Task("AAPL", None, "revenue")>>}
    IN  {Response(<<"{", "tasks", "}">>, plan) : plan \in Plans}
        \cup {Response(text, IF \E i \in DOMAIN text : text[i] = "tasks" THEN plan ELSE <<>>) :
                 text \in UNION {[1..n -> PlannerTokens] : n \in 0..MaxResponseLen},
                 plan \in WrappedPlans}

\* ------------------------------------------------------------------------
\* SpecQA: one call of answer_filing_question(query)
\* ------------------------------------------------------------------------
NoRaw == RawText("", "prose", GoodObj, "", "")

NoResult ==
    [kind |-> None, sections |-> <<>>, companies |-> CompaniesVal(Absent, {}),
     comparison |-> NoComparison, confidence |-> Absent, missing_data |-> <<>>,
     filing_urls |-> {}, sources |-> <<>>, message |-> None]

\* synthesize_answer not called yet
NoFinal == [SynthRaise(None) EXCEPT !.raised = FALSE]

SpecIdle == UNCHANGED <<proc, ops, hist, last_add, last_search, fn>>

InitQA ==
    /\ InitStores
    /\ top_k \in {DefaultTopK, MaxTopK}
    /\ proc = [p \in Procs |-> IdleProc]
    /\ ops = 0
    /\ hist = [forced |-> FALSE, resubmits |-> 0]
    /\ last_add = NoAdd
    /\ last_search = NoSearch
    /\ qa = [pc |-> "preprocess", response |-> Response(<<>>, <<>>), planner_calls |-> 0,
             plan |-> <<>>, i |-> 1, prep |-> <<>>, gathered |-> <<>>,
             results |-> <<>>, raw |-> NoRaw, final |-> NoFinal, result |-> NoResult]
    /\ fn = IdleFn

\* the call returns a message instead of an answer
ReturnText(message) ==
    [qa EXCEPT !.pc = "done",
               !.result = [NoResult EXCEPT !.kind = "text", !.message = message]]

\* lines 801-806: the query names no company outside the supported list, or
\* the call ends with the "not supported" message
QAPreprocess ==
    /\ qa.pc = "preprocess"
    /\ \/ qa' = [qa EXCEPT !.pc = "plan"]
       \/ qa' = ReturnText("unsupported")
    /\ UNCHANGED <<db, index, uuid_next, top_k>>
    /\ SpecIdle

\* lines 810-818: get_plan calls the model once and parses its response (or
\* returns None before the call, the prompt file missing); no plan or an
\* empty plan object ends the call with the "unable to create a plan" message
QAGetPlan ==
    /\ qa.pc = "plan"
    /\ \/ qa' = ReturnText("no_plan")
       \/ \E response \in PlannerResponses :
             LET plan == get_plan(response)
                 called == [qa EXCEPT !.response = response, !.planner_calls = @ + 1]
             IN IF plan.none \/ plan.empty
                THEN qa' = [ReturnText("no_plan") EXCEPT !.response = response,
                                                        !.planner_calls = @ + 1]
                ELSE IF ~plan.has_tasks
                THEN qa' = [called EXCEPT !.pc = "synth"]
                ELSE qa' = [called EXCEPT !.pc = "exec", !.plan = plan.tasks]
    /\ UNCHANGED <<db, index, uuid_next, top_k>>
    /\ SpecIdle

\* a task without a ticker ends the loop over the tasks
QATask_SkipIsFatal ==
    /\ qa.pc = "exec"
    /\ qa.i <= Len(qa.plan)
    /\ LET task == qa.plan[qa.i]
           ticker == task.ticker
           filing_type == IF task.filing_type = None THEN "10-K" ELSE task.filing_type
           skip(status) == qa' = [qa EXCEPT !.i = @ + 1, !.prep = Append(@, status)]
       IN IF ~Truthy(ticker)
          THEN /\ qa' = [qa EXCEPT !.i = Len(qa.plan) + 1, !.prep = Append(@, "skipped")]
               /\ UNCHANGED <<db, index, uuid_next>>
          ELSE \E F \in {NoFaults, [NoFaults EXCEPT !.sec = TRUE],
                          [NoFaults EXCEPT !.embed = TRUE]} :
                 LET r == DataPrepTool_get_or_process_filing(db, index, uuid_next, ticker,
                                                             filing_type, F)
                     chunks == search(r.index, task.search_query, 0, ticker, filing_type,
                                      <<>>, top_k)
                 IN /\ db' = r.db
                    /\ index' = r.index
                    /\ uuid_next' = r.uuid
                    /\ IF ~PrepAccepted(r.status) THEN skip(r.status)
                       ELSE IF task.search_query = None
                       THEN qa' = [qa EXCEPT !.pc = "raised", !.prep = Append(@, r.status)]
                       ELSE qa' = [qa EXCEPT !.i = @ + 1,
                                             !.prep = Append(@, r.status),
                                             !.gathered = Extend(@, ticker, chunks)]
    /\ UNCHANGED top_k
    /\ SpecIdle


\* execute_plan, lines 472-507: one iteration of the loop over the tasks
QATask ==
    /\ qa.pc = "exec"
    /\ qa.i <= Len(qa.plan)
    /\ LET task == qa.plan[qa.i]
           ticker == task.ticker
           filing_type == IF task.filing_type = None THEN "10-K" ELSE task.filing_type
           skip(status) == qa' = [qa EXCEPT !.i = @ + 1, !.prep = Append(@, status)]
       IN IF ~Truthy(ticker)
          THEN skip("skipped") /\ UNCHANGED <<db, index, uuid_next>>
          ELSE \E F \in {NoFaults, [NoFaults EXCEPT !.sec = TRUE],
                          [NoFaults EXCEPT !.embed = TRUE]} :
                 LET r == DataPrepTool_get_or_process_filing(db, index, uuid_next, ticker,
                                                             filing_type, F)
                     chunks == search(r.index, task.search_query, 0, ticker, filing_type,
                                      <<>>, top_k)
                 IN /\ db' = r.db
                    /\ index' = r.index
                    /\ uuid_next' = r.uuid
                    /\ IF ~PrepAccepted(r.status) THEN skip(r.status)
                       ELSE IF task.search_query = None
                       THEN qa' = [qa EXCEPT !.pc = "raised", !.prep = Append(@, r.status)]
                       ELSE qa' = [qa EXCEPT !.i = @ + 1,
                                             !.prep = Append(@, r.status),
                                             !.gathered = Extend(@, ticker, chunks)]
    /\ UNCHANGED top_k
    /\ SpecIdle

\* execute_plan, lines 509-518: the evidence set is returned
QAFinishExec ==
    /\ qa.pc = "exec"
    /\ qa.i > Len(qa.plan)
    /\ qa' = [qa EXCEPT !.pc = "synth", !.results = FinishResults(qa.gathered)]
    /\ UNCHANGED <<db, index, uuid_next, top_k>>
    /\ SpecIdle

\* line 823: synthesize_answer on the evidence set and the model's output
QASynthesize ==
    /\ qa.pc = "synth"
    /\ \E raw \in IF qa.results = <<>> THEN {NoRaw} ELSE RawOutputs :
          LET final == synthesize_answer(qa.results, raw)
          IN qa' = [qa EXCEPT !.pc = IF final.raised THEN "raised" ELSE "filter",
                              !.raw = raw,
                              !.final = final]
    /\ UNCHANGED <<db, index, uuid_next, top_k>>
    /\ SpecIdle

\* all_chunks: the evidence lists of the companies, flattened
RECURSIVE AllChunks(_)
AllChunks(results) ==
    IF results = <<>> THEN <<>>
    ELSE results[1].chunks \o AllChunks(Tail(results))

\* chunk.get(key, default) on an evidence chunk
ChunkGet(chunk, key, default) ==
    IF key \in DOMAIN chunk THEN chunk[key] ELSE default

\* source.get('section_full') or source.get('section', default): the section
\* shown for a chunk; a name is a token sequence, <<>> the missing or empty one
SectionDisplay(chunk, default) ==
    IF ChunkGet(chunk, "section_full", <<>>) # <<>> THEN chunk.section_full
    ELSE ChunkGet(chunk, "section", default)

\* lines 868-884: the sources array, entry i (0-based) built from chunk i of
\* all_chunks
Sources(all_chunks) ==
    LET SourceEntry(i, chunk) ==
            [id |-> i,
             section |-> SectionDisplay(chunk, <<"Unknown">>),
             section_full |-> ChunkGet(chunk, "section_full", <<>>),
             text |-> ChunkGet(chunk, "text", ""),
             score |-> ChunkGet(chunk, "score", 0),
             ticker |-> ChunkGet(chunk, "ticker", ""),
             filing_type |-> ChunkGet(chunk, "filing_type", ""),
             report_date |-> ChunkGet(chunk, "report_date", 0),
             document_url |-> ChunkGet(chunk, "document_url", None)]
    IN [k \in DOMAIN all_chunks |-> SourceEntry(k - 1, all_chunks[k])]

\* lines 831-888: filter, format, return
QAFilterAndFormat ==
    /\ qa.pc = "filter"
    /\ LET tickers == Keys(qa.results)
           filtered == FilterStructured(qa.final.structured, tickers)
           ui == format_answer_for_ui([qa.final EXCEPT !.structured = filtered.structured])
           all_chunks == AllChunks(qa.results)
       IN IF filtered.exc # None \/ ui.exc # None
          THEN qa' = [qa EXCEPT !.pc = "raised"]
          ELSE qa' = [qa EXCEPT !.pc = "done",
                        !.result = [kind |-> "answer",
                                    sections |-> ui.sections,
                                    companies |-> ui.companies,
                                    comparison |-> ui.comparison,
                                    confidence |-> ui.confidence,
                                    missing_data |-> ui.missing_data,
                                    filing_urls |-> get_filing_urls_by_tickers(db, tickers),
                                    sources |-> Sources(all_chunks),
                                    message |-> None]]
    /\ UNCHANGED <<db, index, uuid_next, top_k>>
    /\ SpecIdle

NextQA ==
    \/ QAPreprocess
    \/ QAGetPlan
    \/ QATask
    \/ QAFinishExec
    \/ QASynthesize
    \/ QAFilterAndFormat

SpecQA == InitQA /\ [][NextQA]_vars

\* ------------------------------------------------------------------------
\* Properties of answer_filing_question (SpecQA)
\* ------------------------------------------------------------------------
Returned == qa.pc = "done" /\ qa.result.kind = "answer"

\* C2: after answer_filing_question returns, every key of the answer's
\* companies map is a key of the evidence set passed to synthesis: a company
\* the model named without evidence is not in the final answer.
C2_HallucinatedCompaniesRemoved ==
    Returned => qa.result.companies.keys \subseteq Keys(qa.results)

C2_Witness ==
    /\ Returned
    /\ qa.final.structured.companies.keys \ Keys(qa.results) # {}
    /\ qa.result.companies.keys # {}

\* C3: each company's evidence list returned by execute_plan holds at most
\* 5 chunks (the per-company cap) and no two chunks with the same id.
C3_EvidenceCappedAndUnique ==
    \A i \in DOMAIN qa.results :
        LET chunks == qa.results[i].chunks
        IN /\ Len(chunks) <= 5
           /\ \A j, k \in DOMAIN chunks : chunks[j].id = chunks[k].id => j = k

C3_Witness ==
    /\ qa.pc = "synth"
    /\ \E i \in DOMAIN qa.gathered :
          LET g == qa.gathered[i].chunks
          IN /\ Len(g) > EvidenceCap
             /\ \E j, k \in DOMAIN g : j # k /\ g[j].id = g[k].id
             /\ Len(qa.results[i].chunks) = EvidenceCap

\* C5: synthesize_answer never raises to its caller: for every raw model
\* output it returns an answer with at least one section.
C5_SynthesizeNeverRaises ==
    /\ ~qa.final.raised
    /\ qa.final.tier # None =>
          /\ qa.final.answer.sections.t = "list"
          /\ Len(qa.final.answer.sections.items) >= 1

\* C6: when the only task of the plan names a ticker whose filing cannot be
\* prepared (the preparation returns an error status), the call raises no
\* exception and returns a structured answer with confidence "low" and a
\* non-empty missing_data list.
C6_UnpreparableTickerLowConfidence ==
    (Len(qa.plan) = 1 /\ qa.prep = <<"error">> /\ qa.pc \in {"done", "raised"}) =>
        /\ Returned
        /\ qa.result.confidence = "low"
        /\ qa.result.missing_data # <<>>

\* C7: if at most one company remains in the companies map after the
\* hallucination filter, the comparison block of the returned answer is
\* cleared (summary, winner and metric all null).
C7_ComparisonClearedUnlessTwoCompanies ==
    LET c == qa.result.comparison
    IN  (Returned /\ Cardinality(qa.result.companies.keys) <= 1) =>
            \/ c.t = "null"
            \/ c.t = "dict" /\ \A v \in {c.summary, c.winner, c.metric} : v \in {None, Absent}

\* C11: when the planner's output holds no parseable JSON object between its
\* first '{' and its last '}', get_plan yields no plan after exactly one
\* model call and answer_filing_question returns the could-not-create-a-plan
\* message without running the executor or the synthesizer.
C11_UnparseablePlanFailsHard ==
    LET text == qa.response.text
        HoldsJsonObject ==
            \E a, b \in DOMAIN text :
                /\ text[a] = "{" /\ \A j \in 1..(a - 1) : text[j] # "{"
                /\ text[b] = "}" /\ \A j \in (b + 1)..Len(text) : text[j] # "}"
                /\ a < b
                /\ \A j \in (a + 1)..(b - 1) : text[j] \in {"tasks", "other"}
    IN
    (qa.planner_calls > 0 /\ ~HoldsJsonObject) =>
        /\ qa.pc = "done"
        /\ qa.result.kind = "text"
        /\ qa.result.message = "no_plan"
        /\ qa.planner_calls = 1
        /\ qa.plan = <<>> /\ qa.prep = <<>> /\ qa.gathered = <<>>
        /\ qa.final = NoFinal

C11_Witness ==
    /\ qa.pc = "done"
    /\ qa.planner_calls = 1
    /\ Find(qa.response.text, "{") # 0
    /\ RFind(qa.response.text, "}") # 0
    /\ \E i \in DOMAIN qa.response.text : qa.response.text[i] = "tasks"
    /\ ~LoadsObject(JsonSpan(qa.response.text))
    /\ qa.result.message = "no_plan"

\* C12: search returns exactly the backend's ranked results whose score is at
\* least the score threshold, in the backend's descending-similarity order,
\* and an empty list when no result reaches the threshold.
C12_ThresholdAfterRanking ==
    last_search.called =>
        LET ls == last_search
            BackendScore(i) == Cosine(embed_text(ls.query), index[i].vector)
            hits == QdrantSearch(index, embed_text(ls.query), ls.ticker, ls.filing_type,
                                 ls.section, IF ls.limit = 0 THEN top_k ELSE ls.limit)
            res == last_search.results
            above == {k \in DOMAIN hits : BackendScore(hits[k]) >= ScoreThreshold}
        IN /\ \A k \in DOMAIN res : res[k].score >= ScoreThreshold
           /\ \A j, k \in DOMAIN res : j < k => res[j].score >= res[k].score
           /\ Len(res) = Cardinality(above)
           /\ \A k \in above :
                 \E j \in DOMAIN res :
                    /\ res[j].id = index[hits[k]].id
                    /\ res[j].score = BackendScore(hits[k])
                    /\ j = Cardinality({m \in above : m <= k})
           /\ (above = {} => res = <<>>)

C12_Witness ==
    /\ last_search.called
    /\ last_search.results # <<>>
    /\ Len(last_search.results) <
          Len(QdrantSearch(index, embed_text(last_search.query), last_search.ticker,
                           last_search.filing_type, last_search.section,
                           IF last_search.limit = 0 THEN top_k ELSE last_search.limit))
    /\ \E k \in DOMAIN last_search.results : last_search.results[k].score = ScoreThreshold

\* ------------------------------------------------------------------------
\* SECFilingParser.normalize_section_name (sec_parser.py:203-231) on a name
\* given as a sequence of tokens: the four re.sub calls and the final strip()
\* ------------------------------------------------------------------------
normalize_section_name(section_name) ==
    LET Punctuation == {":", ".", "-"}
        \* the number of whitespace tokens the text starts with
        LeadingWhitespace(s) ==
            IF \A i \in DOMAIN s : s[i] \in Whitespace THEN Len(s)
            ELSE (CHOOSE i \in DOMAIN s : s[i] \notin Whitespace
                                          /\ \A j \in 1..(i - 1) : s[j] \in Whitespace) - 1
        \* the text from position i on
        From(s, i) == SubSeq(s, i, Len(s))
        \* re.sub(r'\s+([:\.\-])\s+', r'\1 ', s)
        RECURSIVE SubSpacedPunctuation(_)
        SubSpacedPunctuation(s) ==
            IF s = <<>> THEN <<>>
            ELSE LET a == LeadingWhitespace(s)
                 IN IF a > 0 /\ Len(s) >= a + 2 /\ s[a + 1] \in Punctuation
                             /\ s[a + 2] \in Whitespace
                    THEN LET rest == From(s, a + 2)
                         IN <<s[a + 1], " ">>
                            \o SubSpacedPunctuation(From(rest, LeadingWhitespace(rest) + 1))
                    ELSE <<s[1]>> \o SubSpacedPunctuation(Tail(s))
        \* re.sub(r'[\.\-]\s', ': ', s)
        RECURSIVE SubSeparators(_)
        SubSeparators(s) ==
            IF s = <<>> THEN <<>>
            ELSE IF Len(s) >= 2 /\ s[1] \in {".", "-"} /\ s[2] \in Whitespace
            THEN IF s[2] = "  " THEN <<":", " ", " ">> \o SubSeparators(From(s, 3))
                 ELSE <<":", " ">> \o SubSeparators(From(s, 3))
            ELSE <<s[1]>> \o SubSeparators(Tail(s))
        \* re.sub(r'\s+', ' ', s)
        RECURSIVE SubWhitespace(_)
        SubWhitespace(s) ==
            IF s = <<>> THEN <<>>
            ELSE IF s[1] \in Whitespace
            THEN <<" ">> \o SubWhitespace(From(s, LeadingWhitespace(s) + 1))
            ELSE <<s[1]>> \o SubWhitespace(Tail(s))
        \* re.sub(r'(?i)^item\s+', 'Item ', s)
        SubItem(s) ==
            IF Len(s) >= 2 /\ s[1] \in ItemWords /\ s[2] \in Whitespace
            THEN <<"Item", " ">> \o From(s, 2 + LeadingWhitespace(Tail(s)))
            ELSE s
    IN StripTokens(SubItem(SubWhitespace(SubSeparators(SubSpacedPunctuation(section_name)))))

\* ------------------------------------------------------------------------
\* SECFilingParser.extract_sections.  The filing text is the sequence of
\* the lines get_full_text returns: stripped, none empty.  A line is a
\* header with its title ("Item 1. Business", kind "titled"), a header
\* without a title ("Item 7", kind "bare"), or plain text (kind "text"); num
\* is the item number with its suffix letter as written, len the line's
\* number of characters.
\* ------------------------------------------------------------------------
Line(kind, text, num, title, len) ==
    [kind |-> kind, text |-> text, num |-> num, title |-> title, len |-> len]

\* section_pattern.finditer(full_text) from line i on: a header line with a
\* title matches by itself; in a header line without one the separator
\* class [\.\:\-\s]+ takes the line break and the title is the whole next
\* line, which the match consumes; as the last line it does not match
RECURSIVE FindHeaders(_, _)
FindHeaders(lines, i) ==
    IF i > Len(lines) THEN <<>>
    ELSE IF lines[i].kind = "titled"
    THEN <<[first |-> i, last |-> i, num |-> lines[i].num, title |-> lines[i].title]>>
         \o FindHeaders(lines, i + 1)
    ELSE IF lines[i].kind = "bare" /\ i < Len(lines)
    THEN <<[first |-> i, last |-> i + 1, num |-> lines[i].num, title |-> lines[i + 1].text]>>
         \o FindHeaders(lines, i + 2)
    ELSE FindHeaders(lines, i + 1)

\* the lines between the end of match k and the start of the next match, or
\* the end of the document
Span(lines, matches, k) ==
    [first |-> matches[k].last + 1,
     last |-> IF k < Len(matches) THEN matches[k + 1].first - 1 ELSE Len(lines)]

\* normalize_section_name(f"Item {section_num} : {section_title}")
SectionName(match) ==
    normalize_section_name(<<"Item", " ">> \o match.num \o <<" ", ":", " ">> \o match.title)

\* the matches whose section text is long enough to be stored:
\* len(full_text[start_pos:end_pos].strip()) counts the lines of the span and
\* the line breaks between them
Stored(lines, matches) ==
    LET RECURSIVE SumLen(_, _)
        SumLen(first, last) ==
            IF first > last THEN 0 ELSE lines[first].len + SumLen(first + 1, last)
        SpanLen(span) ==
            IF span.first > span.last THEN 0
            ELSE SumLen(span.first, span.last) + (span.last - span.first)
    IN {k \in DOMAIN matches : SpanLen(Span(lines, matches, k)) > MinSectionLen}

\* the dict the loop leaves: sections[section_name] = section_text keeps, for
\* each name, the text of the last stored match with that name
extract_sections(lines) ==
    LET matches == FindHeaders(lines, 1)
        kept == Stored(lines, matches)
    IN {[name |-> SectionName(matches[k]), span |-> Span(lines, matches, k)] :
          k \in {j \in kept : \A l \in kept :
                      SectionName(matches[l]) = SectionName(matches[j]) => l <= j}}

\* ------------------------------------------------------------------------
\* SECFilingParser.extract_tables and FinancialDocumentChunker._chunk_tables.
\* The document is the sequence of its <table> and <tr> elements: TableTag
\* opens a table, every other element is a row of the open table, given by
\* the length of " | ".join(row_data); 0 is a row whose cells are all empty.
\* ------------------------------------------------------------------------
TableTag == -1

\* soup.find_all('table'), each table as table.find_all('tr')
RECURSIVE FindAllTables(_)
FindAllTables(doc) ==
    LET \* the rows up to the next table
        RECURSIVE LeadingRows(_)
        LeadingRows(s) ==
            IF s = <<>> \/ Head(s) = TableTag THEN <<>>
            ELSE <<Head(s)>> \o LeadingRows(Tail(s))
    IN IF doc = <<>> THEN <<>>
       ELSE LET rows == LeadingRows(Tail(doc))
            IN <<rows>> \o FindAllTables(SubSeq(doc, Len(rows) + 2, Len(doc)))

\* table_data after the first r rows: the rows with a non-empty cell
NonEmptyRows(rows, r) == SelectSeq(SubSeq(rows, 1, r), LAMBDA len : len > 0)

\* extract_tables as it is indented: the loop over the tables only skips; the
\* conversion runs once after it, on the rows of the last table, and appends
\* an entry after every row once table_data has more than one row.  Without
\* any table the name rows is unbound and the call raises.
extract_tables(doc) ==
    LET tables == FindAllTables(doc)
        RECURSIVE SumSeq(_)
        SumSeq(s) == IF s = <<>> THEN 0 ELSE Head(s) + SumSeq(Tail(s))
        \* len(_table_to_text(table_data)): the rows joined by line breaks
        TableTextLen(table_data) ==
            IF table_data = <<>> THEN 0 ELSE SumSeq(table_data) + Len(table_data) - 1
    IN IF tables = <<>> THEN [raised |-> TRUE, tables |-> <<>>]
       ELSE LET idx == Len(tables) - 1
                rows == tables[Len(tables)]
                Entry(r) == [table_index |-> idx,
                             num_rows |-> Len(NonEmptyRows(rows, r)),
                             text_len |-> TableTextLen(NonEmptyRows(rows, r))]
                RECURSIVE Entries(_)
                Entries(r) ==
                    IF r > Len(rows) THEN <<>>
                    ELSE (IF Len(NonEmptyRows(rows, r)) > 1 THEN <<Entry(r)>> ELSE <<>>)
                         \o Entries(r + 1)
            IN [raised |-> FALSE, tables |-> Entries(1)]

\* _chunk_sections: the chunks of each section in turn.  A section whose
\* text is empty or shorter than min_chunk_size is skipped; chunk_index is the
\* position of the fragment in the splitter's output and
\* total_chunks_in_section the length of that output
RECURSIVE _chunk_sections(_)
_chunk_sections(sections) ==
    IF sections = <<>> THEN <<>>
    ELSE LET section_name == Head(sections).name
             section_chunks == Head(sections).fragments
             RECURSIVE TextLen(_)
             TextLen(f) == IF f = <<>> THEN 0 ELSE Head(f) + TextLen(Tail(f))
             kept == SetToSeq({i \in DOMAIN section_chunks :
                                  ~(section_chunks[i] < MinChunkSize)})
         IN (IF TextLen(section_chunks) < MinChunkSize THEN <<>>
             ELSE [n \in DOMAIN kept |->
                     [section |-> section_name,
                      chunk_index |-> kept[n] - 1,
                      total_chunks_in_section |-> Len(section_chunks),
                      chunk_type |-> "section",
                      char_count |-> section_chunks[kept[n]]]])
            \o _chunk_sections(Tail(sections))


\* _chunk_tables: one chunk for each table whose text is not shorter than
\* min_chunk_size
RECURSIVE _chunk_tables(_)
_chunk_tables(tables) ==
    IF tables = <<>> THEN <<>>
    ELSE LET table == Head(tables)
         IN (IF table.text_len = 0 \/ table.text_len < MinChunkSize THEN <<>>
             ELSE <<[section |-> SecTable, chunk_index |-> table.table_index,
                     chunk_type |-> "table", table_rows |-> table.num_rows,
                     char_count |-> table.text_len]>>)
            \o _chunk_tables(Tail(tables))

\* ------------------------------------------------------------------------
\* The section arguments of a search for a section: its name as stored in
\* the database, its "Item N" label in any letter case, its bare number
\* ------------------------------------------------------------------------
SectionQueries(name, num) ==
    LET LetterCases == IF Len(num) = 1 THEN {num} ELSE {<<num[1], l>> : l \in SuffixLetters}
    IN {name}
       \cup {<<item, " ">> \o n : item \in ItemWords, n \in LetterCases}
       \cup LetterCases

\* ------------------------------------------------------------------------
\* Citations: format_answer_for_ui resolves the citation indices of a
\* section against all_chunks with _build_citations.  An index is what the
\* model's JSON holds: a number ([t |-> "int", v |-> n]) or a string.
\* ------------------------------------------------------------------------
\* a JSON value of the model's output: its type, its printed form, and the
\* elements of a list or the values of an object in key order
JsonVal(t, v, items) == [t |-> t, v |-> v, items |-> items]


\* _format_table, lines 205-222: the rows of the rendered table.  A cell of
\* a list row that is an object is replaced by its values, any other cell by
\* its str(); a row that is not a list becomes the one cell str(row)
_format_table(rows) ==
    LET str(x) == JsonVal("str", x.v, <<>>)
        RECURSIVE FlattenedRow(_)
        FlattenedRow(row) ==
            IF row = <<>> THEN <<>>
            ELSE (IF Head(row).t = "dict" THEN Head(row).items ELSE <<str(Head(row))>>)
                 \o FlattenedRow(Tail(row))
    IN [i \in DOMAIN rows |->
          IF rows[i].t = "list" THEN FlattenedRow(rows[i].items) ELSE <<str(rows[i])>>]


\* the citation object for index idx and its source
Citation(idx, source) ==
    [id |-> idx,
     text |-> <<ChunkGet(source, "filing_type", "Filing"), SectionDisplay(source, <<>>)>>,
     url |-> idx,
     document_url |-> ChunkGet(source, "document_url", None),
     ticker |-> ChunkGet(source, "ticker", ""),
     filing_type |-> ChunkGet(source, "filing_type", ""),
     section |-> SectionDisplay(source, <<>>),
     report_date |-> ChunkGet(source, "report_date", 0)]

\* _build_citations without the lower bound: a negative index counts from
\* the end of the list, one before its start raises
_build_citations_NoLowerBound(citation_indices, sources) ==
    LET kept == SelectSeq(citation_indices, LAMBDA idx : idx.v < Len(sources))
        Pos(v) == IF v >= 0 THEN v + 1 ELSE Len(sources) + v + 1
    IN IF \E i \in DOMAIN citation_indices : citation_indices[i].t # "int"
       THEN [raised |-> TRUE, citations |-> <<>>]
       ELSE IF \E k \in DOMAIN kept : Pos(kept[k].v) < 1
       THEN [raised |-> TRUE, citations |-> <<>>]
       ELSE [raised |-> FALSE,
             citations |-> [k \in DOMAIN kept |->
                              Citation(kept[k].v, sources[Pos(kept[k].v)])]]

\* _build_citations: one citation per index within 0 <= idx < len(sources);
\* comparing a string index with 0 raises TypeError
_build_citations(citation_indices, sources) ==
    LET kept == SelectSeq(citation_indices,
                          LAMBDA idx : 0 <= idx.v /\ idx.v < Len(sources))
    IN IF \E i \in DOMAIN citation_indices : citation_indices[i].t # "int"
       THEN [raised |-> TRUE, citations |-> <<>>]
       ELSE [raised |-> FALSE,
             citations |-> [k \in DOMAIN kept |->
                              Citation(kept[k].v, sources[kept[k].v + 1])]]

\* ------------------------------------------------------------------------
\* SpecDoc: the functions of the document path, each applied to its inputs.
\* fn.pc tells the function and how far it got:
\*   "raw", "once", "twice"        normalize_section_name on a name, then on
\*                                 its result
\*   "text", "sections"            extract_sections on a filing text
\*   "html", "tables", "chunks", "failed"
\*                                 extract_tables, then _chunk_tables
\*   "header", "section", "stored", "filtered"
\*                                 a section header named by extract_sections,
\*                                 stored by add_chunks, searched for
\*   "evidence", "returned", "raised"
\*                                 the citations of a section and the sources
\*                                 array of an answer
\* ------------------------------------------------------------------------
OthersIdle ==
    UNCHANGED <<db, index, uuid_next, top_k, proc, ops, hist, last_add, last_search, qa>>

\* the inputs of the document functions: a section name, a filing text, an
\* HTML document, a section header, or the evidence of a question
InitDoc ==
    /\ InitStores
    /\ top_k = DefaultTopK
    /\ proc = [p \in Procs |-> IdleProc]
    /\ ops = 0
    /\ hist = [forced |-> FALSE, resubmits |-> 0]
    /\ last_add = NoAdd
    /\ last_search = NoSearch
    /\ qa = IdleQA
    /\ \/ \* the names of up to MaxNameLen tokens
          \E name \in UNION {[1..n -> {"Item", "ITEM", " ", "  ", ":", ".", "-", "7"}] :
                               n \in 0..MaxNameLen} :
             fn = [pc |-> "raw", name |-> name, once |-> <<>>, twice |-> <<>>]
       \/ \* the filing texts of up to MaxLines lines
          \E lines \in UNION {[1..n ->
                  {Line("titled", <<"ITEM", " ", "1", ".", " ", "Business">>, <<"1">>,
                        <<"Business">>, 16),
                   Line("titled", <<"Item", " ", "7", " ", "-", " ", "Analysis">>, <<"7">>,
                        <<"Analysis">>, 16),
                   Line("bare", <<"Item", " ", "7">>, <<"7">>, <<>>, 6),
                   Line("text", <<"text">>, <<>>, <<>>, 49),
                   Line("text", <<"text">>, <<>>, <<>>, 50),
                   Line("text", <<"text">>, <<>>, <<>>, MinSectionLen + 1)}] :
                               n \in 0..MaxLines} :
             fn = [pc |-> "text", lines |-> lines, sections |-> {}]
       \/ \* the documents of up to MaxElems table and row elements, the rows
          \* of 0, 20 or 30 characters
          \E doc \in {d \in UNION {[1..n -> {TableTag, 0, 20, 30}] : n \in 0..MaxElems} :
                         d # <<>> => d[1] = TableTag} :
             fn = [pc |-> "html", doc |-> doc, raised |-> FALSE, tables |-> <<>>,
                   chunks |-> <<>>]
       \/ \* the headers with a title, the item number with or without a
          \* suffix letter as the filing writes it
          \E item \in ItemWords,
             num \in {<<n>> : n \in Numbers}
                     \cup {<<n, l>> : n \in Numbers, l \in SuffixLetters},
             sep \in {<<".", " ">>, <<" ", "-", " ">>},
             title \in {"Business", "Risk"} :
             fn = [pc |-> "header",
                   header |-> Line("titled", <<item, " ">> \o num \o sep \o <<title>>, num,
                                   <<title>>, 16),
                   name |-> <<>>, stored |-> <<>>, query |-> <<>>, filter |-> <<>>]
       \/ \* the chunk sets of up to MaxChunks chunks handed to add_chunks,
          \* two of them with the same text
          \E texts \in UNION {[1..n -> {"rev-a", "rev-b", "risk-a"}] : n \in 1..MaxChunks} :
             fn = [pc |-> "new_chunks",
                   chunks |-> [i \in DOMAIN texts |->
                                 [id |-> i, filing_id |-> 1, ticker |-> "AAPL",
                                  filing_type |-> "10-K", report_date |-> 20240928,
                                  section |-> SecMDA, chunk_index |-> i - 1,
                                  chunk_type |-> "section", text |-> texts[i]]],
                   k |-> 0, limit |-> 0, results |-> <<>>]
       \/ \* the sections of a filing, each as the fragments the text splitter
          \* cuts its text into (their lengths without surrounding whitespace):
          \* one section of up to MaxFragments fragments, alone or after another
          \E fragments \in UNION {[1..n -> {20, MinChunkSize, 120}] : n \in 0..MaxFragments},
             before \in {<<>>, <<[name |-> SecRisk, fragments |-> <<120, 120>>]>>} :
             fn = [pc |-> "split",
                   sections |-> before \o <<[name |-> SecMDA, fragments |-> fragments]>>,
                   chunks |-> <<>>]
       \/ \* the "rows" of a table section, up to MaxRows of them: lists of
          \* plain cells, lists with a cell that is an object (of plain or of
          \* nested values), rows that are objects themselves, a plain value
          \E rows \in UNION {[1..n ->
                  {JsonVal("list", "[..]", <<JsonVal("str", "AAPL", <<>>),
                                             JsonVal("num", "2", <<>>)>>),
                   JsonVal("list", "[..]", <<JsonVal("dict", "{..}",
                                                     <<JsonVal("str", "MSFT", <<>>),
                                                       JsonVal("str", "5%", <<>>)>>)>>),
                   JsonVal("list", "[..]", <<JsonVal("str", "TSLA", <<>>),
                                             JsonVal("dict", "{..}",
                                                     <<JsonVal("dict", "{..}", <<>>)>>)>>),
                   JsonVal("dict", "{..}", <<JsonVal("str", "AAPL", <<>>),
                                             JsonVal("str", "2%", <<>>)>>),
                   JsonVal("str", "total", <<>>)}] : n \in 0..MaxRows} :
             fn = [pc |-> "table_rows", rows |-> rows, rendered |-> <<>>]
       \/ \* the evidence sets execute_plan may return for three chunks as
          \* search returns them, and up to MaxCitations citation indices
          LET Chunk(id, filing_id, ticker, filing_type, report_date, data) ==
                  FormatResult(MakePoint([id |-> id, filing_id |-> filing_id,
                                          ticker |-> ticker, filing_type |-> filing_type,
                                          report_date |-> report_date,
                                          section |-> data.section,
                                          chunk_index |-> data.chunk_index,
                                          chunk_type |-> data.chunk_type,
                                          text |-> data.text]),
                               embed_text("revenue"))
              AaplMDA == Chunk(1, 1, "AAPL", "10-K", 20240928, DocChunks("AAPL", "10-K")[1])
              AaplTable == Chunk(6, 1, "AAPL", "10-K", 20240928, DocChunks("AAPL", "10-K")[6])
              MsftRisk == Chunk(8, 2, "MSFT", "10-Q", 20240630, DocChunks("MSFT", "10-Q")[2])
              aapl == {[ticker |-> "AAPL", chunks |-> c] :
                          c \in {<<>>, <<AaplMDA>>, <<AaplMDA, AaplTable>>,
                                 <<AaplTable, AaplMDA>>}}
              msft == {[ticker |-> "MSFT", chunks |-> c] : c \in {<<>>, <<MsftRisk>>}}
              indices == {[t |-> "int", v |-> v] : v \in -1..3} \cup {[t |-> "str", v |-> 0]}
          IN \E results \in {<<>>} \cup {<<a>> : a \in aapl} \cup {<<m>> : m \in msft}
                            \cup {<<a, m>> : a \in aapl, m \in msft}
                            \cup {<<m, a>> : a \in aapl, m \in msft},
                citation_indices \in UNION {[1..n -> indices] : n \in 0..MaxCitations} :
                fn = [pc |-> "evidence", results |-> results,
                      citation_indices |-> citation_indices, all_chunks |-> <<>>,
                      citations |-> <<>>, sources |-> <<>>]

\* normalize_section_name on the name, then on its result
Normalize ==
    /\ \/ /\ fn.pc = "raw"
          /\ fn' = [fn EXCEPT !.pc = "once", !.once = normalize_section_name(fn.name)]
       \/ /\ fn.pc = "once"
          /\ fn' = [fn EXCEPT !.pc = "twice", !.twice = normalize_section_name(fn.once)]
    /\ OthersIdle

ExtractSections ==
    /\ fn.pc = "text"
    /\ fn' = [fn EXCEPT !.pc = "sections", !.sections = extract_sections(fn.lines)]
    /\ OthersIdle

ExtractTables ==
    /\ fn.pc = "html"
    /\ LET r == extract_tables(fn.doc)
       IN fn' = [fn EXCEPT !.pc = IF r.raised THEN "failed" ELSE "tables",
                           !.raised = r.raised, !.tables = r.tables]
    /\ OthersIdle

ChunkTables ==
    /\ fn.pc = "tables"
    /\ fn' = [fn EXCEPT !.pc = "chunks", !.chunks = _chunk_tables(fn.tables)]
    /\ OthersIdle

\* extract_sections names the section of the header
StructureSection ==
    /\ fn.pc = "header"
    /\ fn' = [fn EXCEPT !.pc = "section",
                        !.name = SectionName(FindHeaders(<<fn.header>>, 1)[1])]
    /\ OthersIdle

\* add_chunks stores the normalized name in the section field of the point
StoreSection ==
    /\ fn.pc = "section"
    /\ fn' = [fn EXCEPT !.pc = "stored",
                        !.stored = VectorStore_normalize_section_name(fn.name)]
    /\ OthersIdle

\* search builds the section condition of its filter
FilterSection ==
    /\ fn.pc = "stored"
    /\ \E query \in SectionQueries(fn.name, fn.header.num) :
           fn' = [fn EXCEPT !.pc = "filtered", !.query = query,
                            !.filter = SearchSectionFilter(query)]
    /\ OthersIdle

\* answer_filing_question, lines 831-888: the evidence lists are flattened
\* into all_chunks, the formatter builds the citations of the section, and
\* the sources array is built for the returned payload
FormatAndReturn ==
    /\ fn.pc = "evidence"
    /\ LET all_chunks == AllChunks(fn.results)
           r == _build_citations(fn.citation_indices, all_chunks)
       IN fn' = IF r.raised
                THEN [fn EXCEPT !.pc = "raised", !.all_chunks = all_chunks]
                ELSE [fn EXCEPT !.pc = "returned", !.all_chunks = all_chunks,
                                !.citations = r.citations,
                                !.sources = Sources(all_chunks)]
    /\ OthersIdle

\* VectorStore.add_chunks on the chunk set: the existence check, the
\* embedding and the upload, with the faults a call may meet
AddChunks ==
    /\ fn.pc = "new_chunks"
    /\ \E F \in AddFaults(Len(fn.chunks)) :
          index' = add_chunks(index, fn.chunks, UploadBatchSize, F.failBatches, F.embed,
                              F.upsertAt).index
    /\ fn' = [fn EXCEPT !.pc = "indexed"]
    /\ UNCHANGED <<db, uuid_next, top_k, proc, ops, hist, last_add, last_search, qa>>


\* VectorStore.search(query=text) with the exact text of a chunk that is in
\* the index, without filters, with the default limit or a given one
SearchOwnText ==
    /\ fn.pc = "indexed"
    /\ \E k \in DOMAIN fn.chunks, limit \in {0, 1, 2} :
          /\ HasPoint(index, fn.chunks[k].id)
          /\ fn' = [fn EXCEPT !.pc = "searched", !.k = k, !.limit = limit,
                              !.results = search(index, fn.chunks[k].text, limit, None,
                                                 None, <<>>, top_k)]
    /\ OthersIdle


\* chunk_filing: the section chunks of the filing
ChunkSections ==
    /\ fn.pc = "split"
    /\ fn' = [fn EXCEPT !.pc = "section_chunks", !.chunks = _chunk_sections(fn.sections)]
    /\ OthersIdle


\* format_answer_for_ui on a table section: _format_table renders its rows
FormatTable ==
    /\ fn.pc = "table_rows"
    /\ fn' = [fn EXCEPT !.pc = "table", !.rendered = _format_table(fn.rows)]
    /\ OthersIdle


\* one document function at a time, each on the input drawn by InitDoc
NextDoc ==
    \/ Normalize
    \/ ExtractSections
    \/ ExtractTables
    \/ ChunkTables
    \/ StructureSection
    \/ StoreSection
    \/ FilterSection
    \/ FormatAndReturn
    \/ AddChunks
    \/ SearchOwnText
    \/ ChunkSections
    \/ FormatTable

SpecDoc == InitDoc /\ [][NextDoc]_vars

\* C13: section-name normalization is idempotent: normalizing the result of
\* a normalization returns it unchanged.
C13_NormalizeIdempotent == fn.pc = "twice" => fn.twice = fn.once

\* C14: extract_sections partitions the text after the first header: every
\* span between two headers (or the last header and the document end) that
\* is longer than the minimum is the content of exactly one returned
\* section, and no line belongs to two sections.
C14_SectionsPartition ==
    fn.pc = "sections" =>
        LET matches == FindHeaders(fn.lines, 1)
        IN /\ \A k \in Stored(fn.lines, matches) :
                  Cardinality({s \in fn.sections : s.span = Span(fn.lines, matches, k)}) = 1
           /\ \A s, t \in fn.sections :
                  s # t => (s.span.first..s.span.last) \cap (t.span.first..t.span.last) = {}

\* C15: tables are never split: every table of the document with at least
\* two non-empty rows has exactly one table chunk, whose row count is the
\* table's number of non-empty rows.
C15_TablesWhole ==
    fn.pc \in {"chunks", "failed"} =>
        LET tables == FindAllTables(fn.doc)
        IN \A t \in DOMAIN tables :
               LET rows == NonEmptyRows(tables[t], Len(tables[t]))
                   chunks == {c \in DOMAIN fn.chunks : fn.chunks[c].chunk_index = t - 1}
               IN Len(rows) >= 2 =>
                      /\ Cardinality(chunks) = 1
                      /\ \A c \in chunks : fn.chunks[c].table_rows = Len(rows)

\* C16: a search for a section by its name, its "Item N" label in any letter
\* case or its bare number filters on exactly the value add_chunks stored in
\* the section field of that section's chunks.
C16_FilterMatchesStored == fn.pc = "filtered" => fn.filter = fn.stored

\* C19: every citation emitted for index i has 0 <= i < number of sources and
\* carries the ticker, filing type, section and report date of entry i of the
\* flattened evidence list; the sources array is in the same order, with
\* sources[i].id = i; an out-of-range index yields no citation.
C19_CitationsMatchSources ==
    fn.pc = "returned" =>
        LET evidence == AllChunks(fn.results)
            inRange == SelectSeq(fn.citation_indices,
                                 LAMBDA idx : idx.v \in 0..(Len(evidence) - 1))
        IN /\ Len(fn.citations) = Len(inRange)
           /\ \A k \in DOMAIN fn.citations :
                 LET c == fn.citations[k]
                 IN /\ c.id = inRange[k].v
                    /\ c.id \in 0..(Len(evidence) - 1)
                    /\ c.ticker = evidence[c.id + 1].ticker
                    /\ c.filing_type = evidence[c.id + 1].filing_type
                    /\ c.section = evidence[c.id + 1].section_full
                    /\ c.report_date = evidence[c.id + 1].report_date
           /\ Len(fn.sources) = Len(evidence)
           /\ \A i \in DOMAIN fn.sources :
                 /\ fn.sources[i].id = i - 1
                 /\ fn.sources[i].text = evidence[i].text
                 /\ fn.sources[i].ticker = evidence[i].ticker
                 /\ fn.sources[i].section = evidence[i].section_full

\* the answer is returned with a citation into the evidence of the second
\* company while an index below and an index above the range were dropped
C19_Witness ==
    /\ fn.pc = "returned"
    /\ Len(fn.results) = 2
    /\ Len(fn.sources) = 3
    /\ fn.citation_indices =
           <<[t |-> "int", v |-> -1], [t |-> "int", v |-> 2], [t |-> "int", v |-> 3]>>
    /\ Len(fn.citations) = 1
    /\ fn.citations[1].ticker = fn.results[2].ticker

\* C17: when every search of the call returned no result above the
\* threshold, synthesize_answer returns the explicit no-answer response and
\* the language model is not asked for an answer.
C17_NoEvidenceNoGeneration ==
    (/\ qa.pc \in {"filter", "raised", "done"}
     /\ qa.final # NoFinal
     /\ \A k \in DOMAIN qa.results : qa.results[k].chunks = <<>>)
        => qa.final.tier = "empty" /\ qa.raw = NoRaw

\* C18: an answer obtained by a fallback tier (brace repair, content
\* extraction, the fixed apology) reports a confidence strictly lower than
\* "medium", that is "low".
C18_FallbackLowersConfidence ==
    (/\ qa.pc = "done"
     /\ qa.result.kind = "answer"
     /\ qa.final.tier \in {"repaired", "extracted", "apology"})
        => qa.result.confidence = "low"

\* C20: every entry of the sources array of an answer carries the source URL
\* of its chunk, the document URL of the chunk's filing, along with the
\* chunk's section, text, score, ticker, filing type and report date.
C20_SourcesCarryUrl ==
    (qa.pc = "done" /\ qa.result.kind = "answer") =>
        LET all_chunks == AllChunks(qa.results)
        IN /\ Len(qa.result.sources) = Len(all_chunks)
           /\ \A k \in DOMAIN all_chunks :
                 LET chunk == all_chunks[k]
                     source == qa.result.sources[k]
                 IN /\ source.section = chunk.section_full
                    /\ source.text = chunk.text
                    /\ source.score = chunk.score
                    /\ source.ticker = chunk.ticker
                    /\ source.filing_type = chunk.filing_type
                    /\ source.report_date = chunk.report_date
                    /\ \E f \in db.filings :
                          f.id = chunk.filing_id /\ source.document_url = f.document_url

\* ------------------------------------------------------------------------
\* C21: save_filing_with_chunks is atomic: a call that fails leaves the
\* relational store as it was before the call, so the version of the filing
\* that the call found (and its chunks) is still present when the call
\* raises.  Stated for a call that runs alone: no other request has started.
C21_SaveIsAtomic ==
    [][\A p \in Procs :
          (/\ \A q \in Procs \ {p} : proc[q].op = None
           /\ proc[p].pc = "sv_insert"
           /\ proc'[p].pc = "idle"
           /\ proc'[p].result = "error") =>
              /\ \A fid \in proc[p].existing : \E f \in db'.filings : f.id = fid
              /\ \A fid \in proc[p].existing : \E c \in db'.chunks : c.filing_id = fid]_vars

\* ------------------------------------------------------------------------
\* C22: get_or_process_filing is an idempotent get-or-build: once a call has
\* returned status 'success' for a (ticker, filing type), a call for the same
\* pair whose existence check runs afterwards returns status 'exists' and
\* leaves the relational store and the vector index unchanged.
C22_GetOrBuildIdempotent ==
    [][\A p, q \in Procs :
          (/\ p # q
           /\ proc[q].pc = "idle"
           /\ proc[q].op = "get_or_process"
           /\ proc[q].result = "success"
           /\ proc[p].pc = "gop_check"
           /\ proc'[p].pc # "gop_check"
           /\ Upper(proc[p].ticker) = proc[q].ticker
           /\ proc[p].filing_type = proc[q].filing_type) =>
              /\ proc'[p].pc = "idle"
              /\ proc'[p].result = "exists"
              /\ db' = db
              /\ index' = index]_vars

\* ------------------------------------------------------------------------
\* C23: process_filing never raises: whichever of its steps fails, the call
\* returns a result ('already_exists', 'success' or 'error') to its caller.
C23_ProcessFilingNeverRaises ==
    [][\A p \in Procs :
          (/\ proc[p].pc \in {"pf_check", "pf_company", "pf_fetch", "sv_check", "sv_delete",
                              "sv_insert", "pf_query", "pf_add", "pf_mark"}
           /\ proc'[p].pc = "idle") =>
              proc'[p].result \in {"already_exists", "success", "error"}]_vars

C25_RoundTrip ==
    fn.pc = "searched" =>
        \E j \in DOMAIN fn.results :
            /\ fn.results[j].id = fn.chunks[fn.k].id
            /\ fn.results[j].score = fn.results[1].score

\* C25, amended: the search returns first a chunk with that exact text, scored
\* as the text against itself, and it returns the chunk itself with that
\* score whenever the indexed chunks with the same text are no more than the
\* limit of the search.
C25_RoundTripWithinLimit ==
    fn.pc = "searched" =>
        LET chunk == fn.chunks[fn.k]
            self == Cosine(embed_text(chunk.text), embed_text(chunk.text))
            same == {i \in DOMAIN index : index[i].text = chunk.text}
            limit == IF fn.limit = 0 THEN top_k ELSE fn.limit
        IN /\ fn.results # <<>>
           /\ fn.results[1].text = chunk.text
           /\ fn.results[1].score = self
           /\ Cardinality(same) <= limit =>
                 \E j \in DOMAIN fn.results :
                    /\ fn.results[j].id = chunk.id
                    /\ fn.results[j].score = self

\* the chunk is returned as a tied-top result behind a chunk of the same text
C25_Witness ==
    /\ fn.pc = "searched"
    /\ Len(fn.results) >= 2
    /\ fn.results[1].id # fn.chunks[fn.k].id
    /\ fn.results[2].id = fn.chunks[fn.k].id
    /\ fn.results[2].score = fn.results[1].score
    /\ \E i \in DOMAIN index : index[i].text # fn.chunks[fn.k].text

\* ------------------------------------------------------------------------
\* C27: for every section, the section chunks emitted by the chunker carry
\* the consecutive indices 0..n-1 within that section and a
\* total_chunks_in_section equal to n, the number of chunks emitted for the
\* section, whatever fragments the split of its text yields.
C27_SectionIndicesConsecutive ==
    fn.pc = "section_chunks" =>
        \A s \in DOMAIN fn.sections :
            LET emitted == SelectSeq(fn.chunks,
                                     LAMBDA c : c.section = fn.sections[s].name)
            IN \A j \in DOMAIN emitted :
                  /\ emitted[j].chunk_index = j - 1
                  /\ emitted[j].total_chunks_in_section = Len(emitted)

\* ------------------------------------------------------------------------
\* C28: in the formatter a row of a table section that is itself a mapping is
\* rendered as the list of its values, and every rendered row is a flat list
\* of cell values (no cell is an object or a list).
C28_MappingRowsFlattened ==
    fn.pc = "table" =>
        \A i \in DOMAIN fn.rows :
            /\ fn.rows[i].t = "dict" => fn.rendered[i] = fn.rows[i].items
            /\ \A c \in DOMAIN fn.rendered[i] : fn.rendered[i][c].t \notin {"dict", "list"}

\* ------------------------------------------------------------------------
\* C26: a raw synthesizer output that is not valid JSON as a whole but holds
\* a valid JSON object from its first opening to its last closing brace (the
\* object preceded or followed by prose, or inside a fenced code block) is
\* parsed from that span: synthesize_answer returns what it returns for the
\* object alone, with the object's sections, companies, comparison and
\* confidence.
C26_ObjectSpanParsed ==
    (/\ qa.pc \in {"filter", "raised"}
     /\ qa.final # NoFinal
     /\ qa.results # <<>>
     /\ qa.raw.kind = "object" /\ qa.raw.cut = ""
     /\ qa.raw.pre # "" \/ qa.raw.post # "")
        => qa.final = synthesize_answer(qa.results, RawText("", "object", qa.raw.obj, "", ""))

\* ------------------------------------------------------------------------
\* C29: when the ensure step of a task (get_or_process_filing) returns while
\* the filing is ready (processed, and its chunks embedded in the index),
\* its status is one execute_plan accepts, so the task is searched and not
\* skipped; this includes the call whose two existence checks straddle the
\* end of another request's processing of the same filing.
C29_ReadyFilingSearched ==
    [][\A p \in Procs :
          (/\ proc[p].op = "get_or_process"
           /\ proc[p].pc # "idle"
           /\ proc'[p].pc = "idle"
           /\ proc'[p].result # "raised"
           /\ \E f \in db'.filings :
                 /\ f.ticker = Upper(proc[p].ticker)
                 /\ f.filing_type = proc[p].filing_type
                 /\ f.processed
                 /\ \E c \in db'.chunks : c.filing_id = f.id
                 /\ \A c \in db'.chunks :
                       c.filing_id = f.id => \E i \in DOMAIN index' : index'[i].id = c.id)
             => PrepAccepted(proc'[p].result)]_vars

\* ------------------------------------------------------------------------
\* C30: the ticker execute_plan filters a task's search on equals the ticker
\* stored on the chunks the task's ensure step indexed, whatever the letter
\* case of the task's ticker, so the search can return those chunks.
C30_FilterEqualsStoredTicker ==
    [][(/\ qa.pc = "exec"
        /\ qa.i <= Len(qa.plan)
        /\ qa'.i = qa.i + 1
        /\ PrepAccepted(qa'.prep[Len(qa'.prep)])) =>
           \A k \in DOMAIN index' :
              ~HasPoint(index, index'[k].id) => index'[k].ticker = qa.plan[qa.i].ticker]_vars

====
